---------------------------- MODULE Spec2Model ----------------------------
(***************************************************************************)
(* A model of the glaciers decoder (yulesa/glaciers):                      *)
(*   - the ABI catalog builder   (crates/glaciers/src/abi_reader.rs)       *)
(*   - the matcher and row kernel (matcher.rs, log_decoder.rs)             *)
(*   - the file / chunk orchestrator (decoder.rs, trace_decoder.rs)        *)
(*   - the trace matcher and kernel (matcher.rs, trace_decoder.rs)         *)
(*   - the configuration and the command line (configger.rs, cli main.rs)  *)
(*   - the hex string columns (utils.rs)                                   *)
(*   - the hex string columns of a table and its schema (utils.rs)         *)
(*   - the table files (utils.rs)                                          *)
(*   - the configuration reads of a decode call (decoder.rs, configger.rs) *)
(*   - the parameter records of the event kernels (log_decoder.rs and      *)
(*     src/decoder.rs)                                                     *)
(* Each part has its own variables and its own specification; a            *)
(* specification leaves the variables of the other parts unchanged.        *)
(***************************************************************************)
EXTENDS Integers, Sequences, FiniteSets, Bags, TLC

VARIABLES
    \* ---- ABI catalog builder ----
    unique_key,     \* get_config().abi_reader.unique_key, as the set of its elements
    abiFolder,      \* the ABI source path: what the file system holds there
    catalog,        \* the catalog file at abi_db_path: [exists, cols, rows]
    before,         \* the catalog file as it was when the last update_abi_db call started
    scanned,        \* what read_new_abi_folder returned in the last update_abi_db call
    lastSource,     \* the ABI source as it was when the last update_abi_db call ran
    ret,            \* what the last update_abi_db call returned: [ok, cols, rows]
    streak,         \* number of successful update_abi_db calls made in a row since the
                    \* ABI source last changed
    calls,          \* number of update_abi_db calls made so far
    \* ---- file / chunk orchestrator ----
    config,         \* GLACIERS_CONFIG.decoder: the three concurrency fields
    fkind,          \* per file task: what the file is (see FileKinds)
    fheight,        \* per file task: number of rows of its matched table
    fpc,            \* per file task: where the task is
    fres,           \* per file task: how it ended: "none", "ok", "err", "panic"
    fresult,        \* per file task: the table decode_logs returned (decoded rows)
    fwritten,       \* per file task: decode_log_file wrote the output file
    spawnIdx,       \* per file task: the variable i of decode_logs' slicing loop
    tasks,          \* per file task: its chunk tasks, in spawn order: [lo, hi, pc]
    chan,           \* per file task: the messages in the mpsc channel
    rxOpen,         \* per file task: the receiver rx has not been dropped
    collected,      \* per file task: collected_dfs, the chunks pushed so far
    chunkSem,       \* per file task: permits left in the chunk semaphore
    fileSem,        \* permits left in the file semaphore of decode_log_folder
    folder,         \* decode_log_folder: [pc, idx, res, failed]
    \* ---- matcher and row kernel ----
    decCfg,         \* get_config().decoder: [algorithm, output_hex_string_encoding,
                    \* decoded_chunk_size]
    rawLogs,        \* log_df: the raw log table handed to decode_log_df_with_abi_df
    abiDf,          \* abi_df: the ABI catalog handed to decode_log_df_with_abi_df
    matched,        \* matched_df: the result of the matcher
    output,         \* what decode_log_df_with_abi_df returned: [ok, rows]
    mpc,            \* where decode_log_df_with_abi_df is: "start", "matched", "returned"
    \* ---- trace matcher and kernel ----
    traceCfg,       \* get_config().trace_decoder: [trace_algorithm,
                    \* output_hex_string_encoding, decoded_chunk_size]
    traceDf,        \* trace_df: the raw trace table handed to decode_trace_df_with_abi_df
    traceAbi,       \* abi_df: the ABI catalog handed to decode_trace_df_with_abi_df
    traceMatched,   \* matched_df: the result of the trace matcher
    traceOutput,    \* what decode_trace_df_with_abi_df returned: [ok, rows]
    tpc,            \* where decode_trace_df_with_abi_df is: "start", "returned"
    \* ---- configuration ----
    GLACIERS_CONFIG,\* the process-wide configuration behind the RwLock
    lastCall,       \* the last set_config call: [path, value, before, after, err]
    setCalls,       \* number of set_config calls made so far
    snapshot,       \* the last get_config of a reader thread: [config, during]
    tomlDoc,        \* the leaves of the document handed to set_config_toml
    tomlPairs,      \* config_pairs still to be set by the running set_config_toml
    tomlBefore,     \* the configuration when set_config_toml was called
    tomlRet,        \* what set_config_toml returned: "none", "ok" or the error
    tomlpc,         \* where set_config_toml is: "idle", "running", "returned"
    cli,            \* the arguments of a CLI run: [toml, config]
    cliRet,         \* how async_main went: "none", "command" or "error"
    cpc,            \* where the CLI run is: "start", "done"
    \* ---- hex string columns ----
    hexValue,       \* a value of a column whose configured datatype is HexString
    binValue,       \* what hex_string_columns_to_binary made of it: [ok, null, bytes]
    hexOut,         \* what binary_columns_to_hex_string made of that
    hpc,            \* "start", "binary", "hex" or "failed"
    \* ---- hex string columns of a table ----
    schKind,        \* decoder_type: "Log" or "Trace"
    schDatatype,    \* the configured datatype of each field of that kind's schema
    schDf,          \* df: the table handed to hex_string_columns_to_binary
    schOut,         \* what hex_string_columns_to_binary returned: [ok, df]
    schpc,          \* "start" or "returned"
    \* ---- table files ----
    fsys,           \* the file system: what each path holds, [exists, content]
    lastIo,         \* the last read_df_file / write_df_file call:
                    \* [op, path, before, after, ret]
    ioCalls,        \* number of read_df_file / write_df_file calls made so far
    \* ---- configuration reads of one decode_log_file call ----
    dHeight,        \* height of the matched table of the call
    dIdx,           \* the variable i of the slicing loop
    dPending,       \* chunk tasks spawned whose kernel has not run yet
    dReads,         \* the get_config() reads of the call so far: [field, value]
    dSeen,          \* the values GLACIERS_CONFIG has held since the call started
    dSets,          \* number of set_config calls made by the other thread
    dpc,            \* where the call is: "idle", "algorithm", "permits", "slicing",
                    \* "format", "returned"
    \* ---- parameter records of the event kernels ----
    kInputs,        \* event_sig.inputs: the inputs of the parsed signature
    kEvent,         \* structured_event: the records map_event_sig_and_values built
    kpc             \* "start", or the kernel that ran: "glaciers" (crates/glaciers)
                    \* or "src" (src/decoder.rs)

catVars == <<unique_key, abiFolder, catalog, before, scanned, lastSource, ret, streak, calls>>

orchVars == <<config, fkind, fheight, fpc, fres, fresult, fwritten, spawnIdx, tasks, chan,
              rxOpen, collected, chunkSem, fileSem, folder>>

matchVars == <<decCfg, rawLogs, abiDf, matched, output, mpc>>

traceVars == <<traceCfg, traceDf, traceAbi, traceMatched, traceOutput, tpc>>

cfgVars == <<GLACIERS_CONFIG, lastCall, setCalls, snapshot, tomlDoc, tomlPairs, tomlBefore,
             tomlRet, tomlpc, cli, cliRet, cpc>>

hexVars == <<hexValue, binValue, hexOut, hpc>>

schemaVars == <<schKind, schDatatype, schDf, schOut, schpc>>

fileVars == <<fsys, lastIo, ioCalls>>

readVars == <<dHeight, dIdx, dPending, dReads, dSeen, dSets, dpc>>

kernelVars == <<kInputs, kEvent, kpc>>

ioVars == <<schemaVars, fileVars, readVars, kernelVars>>

vars == <<catVars, orchVars, matchVars, traceVars, cfgVars, hexVars, ioVars>>

-----------------------------------------------------------------------------
(* Bounds of the model                                                      *)

MaxEntries == 2     \* entries of the ABI source directory
MaxItems == 1       \* events / functions declared by one ABI file
MaxCalls == 2       \* update_abi_db calls in one behaviour
MaxRows == 3        \* rows of the matched table of a single decoded file
MaxChunkSize == 3   \* decoder.decoded_chunk_size tried on a single decoded file
MaxPermits == 2     \* permits of the file and of the chunk semaphore
NFiles == 2         \* files of a decoded folder
MaxLogs == 2        \* rows of a raw log table handed to the matcher
MaxTraces == 2      \* rows of a raw trace table handed to the trace matcher
MaxSets == 2        \* set_config calls of a library user
MaxLeaves == 2      \* leaves of a TOML document
MaxArgs == 2        \* -c entries of a CLI run
MaxBytes == 1       \* bytes of a hex string value
MaxSlices == 11     \* slices of a matched table decoded under fair scheduling
MaxParams == 3      \* inputs of an event signature
MaxIo == 2          \* read_df_file / write_df_file calls in one behaviour

-----------------------------------------------------------------------------
(* Generic sequence helpers                                                 *)

Range(s) == {s[i] : i \in 1..Len(s)}

SeqsUpTo(S, n) == UNION {[1..k -> S] : k \in 0..n}

RECURSIVE Flatten(_)
Flatten(ss) == IF ss = <<>> THEN <<>> ELSE Head(ss) \o Flatten(Tail(ss))

-----------------------------------------------------------------------------
(* ABI catalog builder: abi_reader.rs                                       *)

Addresses == {"0xA", "0xB"}

\* The events/functions an ABI file can declare.  Two items share the hash
\* (same canonical signature, different parameter names), one has its own.
AbiItems == {[hash |-> "h1", sig |-> "Transfer(address a)"],
             [hash |-> "h1", sig |-> "Transfer(address b)"],
             [hash |-> "h2", sig |-> "Approval(address a)"]}

UniqueKeyOptions == {"full_signature", "address"}

\* The columns of the frames the builder handles.
CatalogCols == {"address", "hash", "full_signature", "name", "anonymous",
                "num_indexed_args", "state_mutability", "id"}

\* The columns of the frame read_new_abi_folder builds when no file was processed.
EmptyScanCols == {"address", "hash", "full_signature", "name", "anonymous",
                  "state_mutability", "id"}

\* create_event_row / create_function_row: the id is the hash, then the full
\* signature and the address when unique_key contains their names.
IdOf(item, address, key) ==
    <<item.hash>>
      \o (IF "full_signature" \in key THEN <<item.sig>> ELSE <<>>)
      \o (IF "address" \in key THEN <<address>> ELSE <<>>)

CreateRow(item, address, key) ==
    [address |-> address, hash |-> item.hash, full_signature |-> item.sig,
     id |-> IdOf(item, address, key)]

\* What a directory entry can be.
AbiEntries ==
    [kind : {"abi"}, address : Addresses, items : SeqsUpTo(AbiItems, MaxItems)]
      \cup [kind : {"skipped"}, address : {"none"}, items : {<<>>}]
      \cup [kind : {"invalid"}, address : Addresses, items : {<<>>}]
      \cup [kind : {"dir"}, address : {"none"}, items : {<<>>}]

Ok(cols, rows) == [ok |-> TRUE, cols |-> cols, rows |-> rows]
Err == [ok |-> FALSE, cols |-> {}, rows |-> <<>>]

\* read_new_abi_file: a file that is not <address>.json, or that cannot be read
\* or parsed, is an error; otherwise one row per declared item.
ReadNewAbiFile(entry, key) ==
    IF entry.kind = "abi"
    THEN Ok(CatalogCols,
            [i \in 1..Len(entry.items) |-> CreateRow(entry.items[i], entry.address, key)])
    ELSE Err

\* The frames read_new_abi_folder collects: directories and failing files are skipped.
RECURSIVE ProcessedFrames(_, _)
ProcessedFrames(entries, key) ==
    IF entries = <<>> THEN <<>>
    ELSE LET e == Head(entries)
             rest == ProcessedFrames(Tail(entries), key)
         IN  IF e.kind = "dir" THEN rest
             ELSE IF ReadNewAbiFile(e, key).ok
                  THEN <<ReadNewAbiFile(e, key).rows>> \o rest
                  ELSE rest

\* read_new_abi_folder on [kind, entries]: a missing path is an error, a single
\* file is read_new_abi_file, a directory is the vstack of the processed frames.
ReadNewAbiFolder(src, key) ==
    IF src.kind = "missing" THEN Err
    ELSE IF src.kind = "file" THEN ReadNewAbiFile(src.entries[1], key)
    ELSE LET frames == ProcessedFrames(src.entries, key)
         IN  IF frames = <<>> THEN Ok(EmptyScanCols, <<>>)
             ELSE Ok(CatalogCols, Flatten(frames))

\* new_df.join(existing_df, ["id"], ["id"], Anti): the rows of new whose id
\* does not occur in existing, with the columns of new.
AntiJoin(new, existing) ==
    LET ids == {existing.rows[i].id : i \in 1..Len(existing.rows)}
    IN  Ok(new.cols, SelectSeq(new.rows, LAMBDA r : r.id \notin ids))

\* unique(["id"], UniqueKeepStrategy::First): the first row of every id.  (The
\* engine does not promise the order of the result; the model keeps the order
\* of first occurrence and the claims compare row sets only.)
RECURSIVE UniqueFirst(_, _)
UniqueFirst(rows, seen) ==
    IF rows = <<>> THEN <<>>
    ELSE IF Head(rows).id \in seen THEN UniqueFirst(Tail(rows), seen)
    ELSE <<Head(rows)>> \o UniqueFirst(Tail(rows), seen \cup {Head(rows).id})

\* concat_dataframes: a vertical concat, which the engine refuses for frames
\* whose schemas differ, followed by unique on id keeping the first.
ConcatDataframes(a, b) ==
    IF a.cols # b.cols THEN Err
    ELSE Ok(a.cols, UniqueFirst(a.rows \o b.rows, {}))

\* The frame update_abi_db starts from: the file, or an empty frame with the schema.
ExistingDf(cat) ==
    IF cat.exists THEN Ok(cat.cols, cat.rows) ELSE Ok(CatalogCols, <<>>)

\* update_abi_db up to the write: the frame it writes and returns, or the error.
UpdateResult(cat, src, key) ==
    LET existing == ExistingDf(cat)
        new == ReadNewAbiFolder(src, key)
    IN  IF ~new.ok THEN Err
        ELSE IF Len(existing.rows) > 0
             THEN ConcatDataframes(existing, AntiJoin(new, existing))
             ELSE new

\* The orchestrator at rest (no folder is being decoded), for the
\* specifications of the other parts.
IdleOrch ==
    /\ config = [max_concurrent_files_decoding |-> 1, max_chunk_threads_per_file |-> 1,
                 decoded_chunk_size |-> 1]
    /\ fkind = <<>> /\ fheight = <<>> /\ fpc = <<>> /\ fres = <<>> /\ fresult = <<>>
    /\ fwritten = <<>>
    /\ spawnIdx = <<>> /\ tasks = <<>> /\ chan = <<>> /\ rxOpen = <<>>
    /\ collected = <<>> /\ chunkSem = <<>>
    /\ fileSem = 1
    /\ folder = [pc |-> "returned", idx |-> 1, res |-> "ok", failed |-> 0]

\* The matcher at rest (no table is being decoded), for the specifications of
\* the other parts.
IdleMatch ==
    /\ decCfg = [algorithm |-> "hash", output_hex_string_encoding |-> FALSE,
                 decoded_chunk_size |-> 1]
    /\ rawLogs = <<>> /\ abiDf = <<>> /\ matched = <<>>
    /\ output = [ok |-> FALSE, rows |-> <<>>]
    /\ mpc = "returned"

\* The trace decoder at rest.
IdleTrace ==
    /\ traceCfg = [trace_algorithm |-> "four_bytes", output_hex_string_encoding |-> FALSE,
                   decoded_chunk_size |-> 1]
    /\ traceDf = <<>> /\ traceAbi = <<>> /\ traceMatched = <<>>
    /\ traceOutput = [ok |-> FALSE, rows |-> <<>>]
    /\ tpc = "returned"

\* The configuration fields of the model, at their default values.
DefaultConfig ==
    [abi_reader |-> [unique_key |-> <<"hash", "full_signature", "address">>],
     decoder |-> [algorithm |-> "Hash", output_hex_string_encoding |-> FALSE,
                  output_file_format |-> "parquet", max_concurrent_files_decoding |-> 16,
                  max_chunk_threads_per_file |-> 16, decoded_chunk_size |-> 500000],
     log_decoder |-> [log_alias_topic0 |-> "topic0"]]

NoCall == [path |-> <<>>, value |-> [kind |-> "String", v |-> ""],
           before |-> DefaultConfig, after |-> DefaultConfig, err |-> "none"]

\* The configuration at rest: the defaults, no call made.
IdleConfig ==
    /\ GLACIERS_CONFIG = DefaultConfig
    /\ lastCall = NoCall
    /\ setCalls = 0
    /\ snapshot = [config |-> DefaultConfig, during |-> FALSE]
    /\ tomlDoc = <<>> /\ tomlPairs = <<>> /\ tomlBefore = DefaultConfig
    /\ tomlRet = "none" /\ tomlpc = "idle"
    /\ cli = [toml |-> <<>>, has_toml |-> FALSE, config |-> <<>>]
    /\ cliRet = "none" /\ cpc = "done"

\* No column is being converted.
IdleHex ==
    /\ hexValue = <<>>
    /\ binValue = [ok |-> TRUE, null |-> FALSE, bytes |-> <<>>]
    /\ hexOut = <<>>
    /\ hpc = "hex"

\* No table is being converted.
IdleSchema ==
    /\ schKind = "Log"
    /\ schDatatype = <<>>
    /\ schDf = <<>>
    /\ schOut = [ok |-> TRUE, df |-> <<>>]
    /\ schpc = "returned"

\* No table file is read or written.
IdleFile ==
    /\ fsys = <<>>
    /\ lastIo = [op |-> "none", path |-> <<>>, before |-> <<>>, after |-> <<>>,
                 ret |-> [ok |-> TRUE, df |-> <<>>]]
    /\ ioCalls = 0

\* No decode_log_file call reads the configuration.
IdleReads ==
    /\ dHeight = 0 /\ dIdx = 0 /\ dPending = 0
    /\ dReads = <<>> /\ dSeen = {} /\ dSets = 0
    /\ dpc = "idle"

\* No event is being mapped.
IdleKernel ==
    /\ kInputs = <<>> /\ kEvent = <<>> /\ kpc = "idle"

\* The parts of utils.rs, the snapshot readers and the event kernels at rest.
IdleIo ==
    /\ IdleSchema
    /\ IdleFile
    /\ IdleReads
    /\ IdleKernel

NoCatalog == [exists |-> FALSE, cols |-> {}, rows |-> <<>>]

InitCatalog ==
    /\ unique_key \in SUBSET UniqueKeyOptions
    /\ abiFolder = [kind |-> "dir", entries |-> <<>>]
    /\ catalog = NoCatalog
    /\ before = NoCatalog
    /\ scanned = Err
    /\ lastSource = [kind |-> "missing", entries |-> <<>>]
    /\ ret = Err
    /\ streak = 0
    /\ calls = 0
    /\ IdleOrch
    /\ IdleMatch
    /\ IdleTrace
    /\ IdleConfig
    /\ IdleHex
    /\ IdleIo

\* The catalog builder at rest, for the specifications of the other parts.
IdleCatalog ==
    /\ unique_key = UniqueKeyOptions
    /\ abiFolder = [kind |-> "missing", entries |-> <<>>]
    /\ catalog = NoCatalog
    /\ before = NoCatalog
    /\ scanned = Err
    /\ lastSource = [kind |-> "missing", entries |-> <<>>]
    /\ ret = Err
    /\ streak = 0
    /\ calls = 0

\* The environment adds a file or a sub-directory to the ABI source directory.
AddAbiEntry ==
    /\ calls < MaxCalls
    /\ abiFolder.kind = "dir"
    /\ Len(abiFolder.entries) < MaxEntries
    /\ \E e \in AbiEntries :
         abiFolder' = [abiFolder EXCEPT !.entries = Append(@, e)]
    /\ streak' = 0
    /\ UNCHANGED <<unique_key, catalog, before, scanned, lastSource, ret, calls, orchVars, matchVars, traceVars, cfgVars, hexVars, ioVars>>

\* The environment removes the ABI source, or points it at a single file.
ReplaceAbiSource ==
    /\ calls < MaxCalls
    /\ \/ abiFolder' = [kind |-> "missing", entries |-> <<>>]
       \/ abiFolder' = [kind |-> "dir", entries |-> <<>>]
       \/ \E e \in {x \in AbiEntries : x.kind # "dir"} :
            abiFolder' = [kind |-> "file", entries |-> <<e>>]
    /\ abiFolder' # abiFolder
    /\ streak' = 0
    /\ UNCHANGED <<unique_key, catalog, before, scanned, lastSource, ret, calls, orchVars, matchVars, traceVars, cfgVars, hexVars, ioVars>>

\* update_abi_db(abi_db_path, abi_folder_path): on success the combined frame is
\* written to the catalog file and returned; on failure the file is left alone.
UpdateAbiDb ==
    /\ calls < MaxCalls
    /\ LET res == UpdateResult(catalog, abiFolder, unique_key)
       IN  /\ ret' = res
           /\ catalog' = IF res.ok
                         THEN [exists |-> TRUE, cols |-> res.cols, rows |-> res.rows]
                         ELSE catalog
           /\ streak' = IF res.ok THEN streak + 1 ELSE 0
    /\ before' = catalog
    /\ scanned' = ReadNewAbiFolder(abiFolder, unique_key)
    /\ lastSource' = abiFolder
    /\ calls' = calls + 1
    /\ UNCHANGED <<unique_key, abiFolder, orchVars, matchVars, traceVars, cfgVars, hexVars, ioVars>>

NextCatalog == AddAbiEntry \/ ReplaceAbiSource \/ UpdateAbiDb

SpecCatalog == InitCatalog /\ [][NextCatalog]_vars

-----------------------------------------------------------------------------
(* Claims about the catalog builder                                         *)

Ids(rows) == {rows[i].id : i \in 1..Len(rows)}

UniqueIds(rows) == \A i, j \in 1..Len(rows) : rows[i].id = rows[j].id => i = j

\* C1: after update_abi_db returns successfully, no two rows of the returned
\* and persisted catalog have the same id.
C1_CatalogIdsUnique ==
    (calls > 0 /\ ret.ok) => (UniqueIds(ret.rows) /\ UniqueIds(catalog.rows))

\* C2: a second update_abi_db call in a row on the same catalog path and the
\* same, unchanged source leaves the persisted catalog with exactly the rows
\* it had after the first call.
C2_SecondUpdateKeepsRows ==
    streak >= 2 => Range(catalog.rows) = Range(before.rows)

\* C3: every row persisted before a successful update_abi_db call is still
\* persisted after it, and the ids after the call are the ids before it
\* together with the ids the scan produced.
C3_ExistingRowsKept ==
    (calls > 0 /\ ret.ok) =>
        /\ Range(before.rows) \subseteq Range(catalog.rows)
        /\ Ids(catalog.rows) = Ids(before.rows) \cup Ids(scanned.rows)

\* The rows of the eligible, readable, parseable files of a directory, in order.
RECURSIVE RemainingRows(_, _)
RemainingRows(entries, key) ==
    IF entries = <<>> THEN <<>>
    ELSE (IF Head(entries).kind = "abi"
          THEN [i \in 1..Len(Head(entries).items) |->
                    CreateRow(Head(entries).items[i], Head(entries).address, key)]
          ELSE <<>>) \o RemainingRows(Tail(entries), key)

\* C4: for a source directory, entries that are skipped are never fatal:
\* read_new_abi_folder succeeds with exactly the rows of the remaining files
\* and update_abi_db succeeds.
C4_SkippedEntriesNeverFatal ==
    (calls > 0 /\ lastSource.kind = "dir") =>
        /\ scanned.ok
        /\ scanned.rows = RemainingRows(lastSource.entries, unique_key)
        /\ ret.ok

\* The ABI source of the last update_abi_db call was a single file that is not
\* eligible: its extension is not .json or its stem is no address.
IneligibleFileScanned ==
    /\ calls > 0
    /\ lastSource.kind = "file"
    /\ lastSource.entries[1].kind = "skipped"

\* C29: read_new_abi_file on a file that is not eligible reports the file as
\* skipped and returns an empty result rather than an error, and so does
\* read_new_abi_folder when the ABI source path is such a single file.
C29_IneligibleFileGivesEmptyResult ==
    IneligibleFileScanned =>
        /\ ReadNewAbiFile(lastSource.entries[1], unique_key) = Ok(CatalogCols, <<>>)
        /\ scanned.ok
        /\ scanned.rows = <<>>

\* C29, what the code does: the ineligible single file is an error of
\* read_new_abi_file, which read_new_abi_folder and update_abi_db pass on,
\* leaving the catalog file alone; inside a directory the same file is skipped
\* without error.
C29_IneligibleFileIsError ==
    /\ IneligibleFileScanned => (~scanned.ok /\ ~ret.ok /\ catalog = before)
    /\ (calls > 0 /\ lastSource.kind = "dir") =>
          (scanned.ok /\ scanned.rows = RemainingRows(lastSource.entries, unique_key))

-----------------------------------------------------------------------------
(* File / chunk orchestrator: decoder.rs (decode_log_folder, decode_logs,   *)
(* union_dataframes); trace_decoder.rs has the same structure.              *)

\* Capacity of the channel the chunk tasks report on.
ChannelCapacity == 10

\* What a file of the folder can be:
\*   "ok"         a readable log file whose rows the kernel can process
\*   "io_error"   a directory or an unreadable file: read_df_file fails
\*   "panic"      the path has no grandparent: decode_log_file panics on unwrap
\*   "bad_schema" a column the kernel selects is missing: polars_decode_logs
\*                returns Err on every chunk
\*   "bad_row"    row 1 has a topic that is not 32 bytes long: FixedBytes::from_slice
\*                panics in the chunk that holds the row
FileKinds == {"ok", "io_error", "panic", "bad_schema", "bad_row"}

Files == DOMAIN fpc

Min(a, b) == IF a < b THEN a ELSE b

\* A decoded row: the output of the row kernel for row i of the matched table.
DecodedRow(i) == <<"decoded", i>>

\* A kernel that returns the rows of its slice in reverse order.
PolarsDecodeLogs_reversed(kind, lo, hi) ==
    IF kind = "bad_schema" THEN [status |-> "err", rows |-> <<>>]
    ELSE IF kind = "bad_row" /\ lo = 1 THEN [status |-> "panic", rows |-> <<>>]
    ELSE [status |-> "ok", rows |-> [k \in 1..(hi - lo + 1) |-> DecodedRow(hi - k + 1)]]

\* polars_decode_logs on the slice lo..hi of the matched table of a file.
PolarsDecodeLogs(kind, lo, hi) ==
    IF kind = "bad_schema" THEN [status |-> "err", rows |-> <<>>]
    ELSE IF kind = "bad_row" /\ lo = 1 THEN [status |-> "panic", rows |-> <<>>]
    ELSE [status |-> "ok", rows |-> [k \in 1..(hi - lo + 1) |-> DecodedRow(lo + k - 1)]]

\* A union that keeps the first collected chunk only.
UnionDataframes_firstOnly(dfs) ==
    IF Len(dfs) = 0 THEN [ok |-> FALSE, rows |-> <<>>] ELSE [ok |-> TRUE, rows |-> dfs[1]]

\* union_dataframes: a single frame is returned as it is, several are
\* concatenated in the order of the vector, an empty vector is an error of concat.
UnionDataframes(dfs) ==
    IF Len(dfs) = 1 THEN [ok |-> TRUE, rows |-> dfs[1]]
    ELSE IF Len(dfs) = 0 THEN [ok |-> FALSE, rows |-> <<>>]
    ELSE [ok |-> TRUE, rows |-> Flatten(dfs)]

\* The state after decode_log_folder listed the folder, created the file
\* semaphore and spawned one task per entry.
InitOrch(nf, shapes, chunkSizes, permits) ==
    /\ config \in [max_concurrent_files_decoding : permits,
                   max_chunk_threads_per_file : permits,
                   decoded_chunk_size : chunkSizes]
    /\ \E fs \in [1..nf -> shapes] :
          /\ fkind = [f \in 1..nf |-> fs[f].kind]
          /\ fheight = [f \in 1..nf |-> fs[f].height]
    /\ fpc = [f \in 1..nf |-> "wait_permit"]
    /\ fres = [f \in 1..nf |-> "none"]
    /\ fresult = [f \in 1..nf |-> <<>>]
    /\ fwritten = [f \in 1..nf |-> FALSE]
    /\ spawnIdx = [f \in 1..nf |-> 0]
    /\ tasks = [f \in 1..nf |-> <<>>]
    /\ chan = [f \in 1..nf |-> <<>>]
    /\ rxOpen = [f \in 1..nf |-> TRUE]
    /\ collected = [f \in 1..nf |-> <<>>]
    /\ chunkSem = [f \in 1..nf |-> 0]
    /\ fileSem = config.max_concurrent_files_decoding
    /\ folder = [pc |-> "joining", idx |-> 1, res |-> "none", failed |-> 0]

\* A file task gets a file permit and runs decode_log_file up to the slicing
\* loop of decode_logs: the path unwraps, read_df_file, the matcher, and the
\* creation of the chunk semaphore, the channel and the collector.
FileStart(f) ==
    /\ fpc[f] = "wait_permit"
    /\ fileSem > 0
    /\ IF fkind[f] \in {"panic", "io_error"}
       THEN /\ fpc' = [fpc EXCEPT ![f] = "done"]
            /\ fres' = [fres EXCEPT ![f] = IF fkind[f] = "panic" THEN "panic" ELSE "err"]
            /\ UNCHANGED <<fileSem, chunkSem>>
       ELSE /\ fpc' = [fpc EXCEPT ![f] = "spawning"]
            /\ fileSem' = fileSem - 1
            /\ chunkSem' = [chunkSem EXCEPT ![f] = config.max_chunk_threads_per_file]
            /\ UNCHANGED fres
    /\ UNCHANGED <<config, fkind, fheight, fresult, fwritten, spawnIdx, tasks, chan, rxOpen,
                   collected, folder, catVars, matchVars, traceVars, cfgVars, hexVars, ioVars>>

\* One iteration of the slicing loop: the chunk size is read from the
\* configuration, the slice i..end is handed to a new chunk task.
SpawnChunk(f) ==
    /\ fpc[f] = "spawning"
    /\ spawnIdx[f] < fheight[f]
    /\ LET end == Min(spawnIdx[f] + config.decoded_chunk_size, fheight[f])
       IN  /\ tasks' = [tasks EXCEPT ![f] =
                           Append(@, [lo |-> spawnIdx[f] + 1, hi |-> end, pc |-> "acquire"])]
           /\ spawnIdx' = [spawnIdx EXCEPT ![f] = end]
    /\ UNCHANGED <<config, fkind, fheight, fpc, fres, fresult, fwritten, chan, rxOpen, collected,
                   chunkSem, fileSem, folder, catVars, matchVars, traceVars, cfgVars, hexVars, ioVars>>

\* The slicing loop ends, the original sender is dropped, the file task
\* starts to receive.
SpawnDone(f) ==
    /\ fpc[f] = "spawning"
    /\ spawnIdx[f] >= fheight[f]
    /\ fpc' = [fpc EXCEPT ![f] = "receiving"]
    /\ UNCHANGED <<config, fkind, fheight, fres, fresult, fwritten, spawnIdx, tasks, chan, rxOpen,
                   collected, chunkSem, fileSem, folder, catVars, matchVars, traceVars, cfgVars, hexVars, ioVars>>

SetTaskPc(f, c, pc) == [tasks EXCEPT ![f][c].pc = pc]

\* The collector mutex of file f is held by the chunk task that pushed its
\* chunk and has not yet completed its send.
LockHeld(f) == \E c \in 1..Len(tasks[f]) : tasks[f][c].pc = "send"

\* A chunk task that starts the row kernel without waiting for a permit.
ChunkAcquire_noWait(f, c) ==
    /\ tasks[f][c].pc = "acquire"
    /\ chunkSem' = [chunkSem EXCEPT ![f] = @ - 1]
    /\ tasks' = [tasks EXCEPT ![f][c].pc = "kernel"]
    /\ UNCHANGED <<config, fkind, fheight, fpc, fres, fresult, fwritten, spawnIdx, chan, rxOpen,
                   collected, fileSem, folder, catVars, matchVars, traceVars, cfgVars, hexVars, ioVars>>

\* A chunk task gets a permit of the chunk semaphore of its decode_logs call
\* and starts the row kernel.
ChunkAcquire(f, c) ==
    /\ tasks[f][c].pc = "acquire"
    /\ chunkSem[f] > 0
    /\ chunkSem' = [chunkSem EXCEPT ![f] = @ - 1]
    /\ tasks' = SetTaskPc(f, c, "kernel")
    /\ UNCHANGED <<config, fkind, fheight, fpc, fres, fresult, fwritten, spawnIdx, chan, rxOpen,
                   collected, fileSem, folder, catVars, matchVars, traceVars, cfgVars, hexVars, ioVars>>

\* polars_decode_logs returns in a chunk task: Ok leads to the collector lock,
\* Err to the send of the error, a panic ends the task (the permit is released
\* and the sender dropped by unwinding).
ChunkKernel(f, c) ==
    /\ tasks[f][c].pc = "kernel"
    /\ LET out == PolarsDecodeLogs(fkind[f], tasks[f][c].lo, tasks[f][c].hi)
       IN  IF out.status = "panic"
           THEN /\ tasks' = SetTaskPc(f, c, "panicked")
                /\ chunkSem' = [chunkSem EXCEPT ![f] = @ + 1]
           ELSE /\ tasks' = SetTaskPc(f, c, IF out.status = "ok" THEN "lock" ELSE "senderr")
                /\ UNCHANGED chunkSem
    /\ UNCHANGED <<config, fkind, fheight, fpc, fres, fresult, fwritten, spawnIdx, chan, rxOpen,
                   collected, fileSem, folder, catVars, matchVars, traceVars, cfgVars, hexVars, ioVars>>

\* A chunk task locks the collector and pushes its decoded chunk.
ChunkLock(f, c) ==
    /\ tasks[f][c].pc = "lock"
    /\ ~LockHeld(f)
    /\ collected' = [collected EXCEPT ![f] =
                        Append(@, PolarsDecodeLogs(fkind[f], tasks[f][c].lo, tasks[f][c].hi).rows)]
    /\ tasks' = SetTaskPc(f, c, "send")
    /\ UNCHANGED <<config, fkind, fheight, fpc, fres, fresult, fwritten, spawnIdx, chan, rxOpen,
                   chunkSem, fileSem, folder, catVars, matchVars, traceVars, cfgVars, hexVars, ioVars>>

\* A chunk task sends its result on the channel and ends: the lock guard (if
\* any), the permit and the sender are dropped.  The send waits while the
\* channel is full and fails, making expect panic, once the receiver is gone.
ChunkSend(f, c) ==
    /\ tasks[f][c].pc \in {"send", "senderr"}
    /\ IF ~rxOpen[f]
       THEN /\ tasks' = SetTaskPc(f, c, "panicked")
            /\ UNCHANGED chan
       ELSE /\ Len(chan[f]) < ChannelCapacity
            /\ chan' = [chan EXCEPT ![f] =
                           Append(@, IF tasks[f][c].pc = "send" THEN "Ok" ELSE "Err")]
            /\ tasks' = SetTaskPc(f, c, "done")
    /\ chunkSem' = [chunkSem EXCEPT ![f] = @ + 1]
    /\ UNCHANGED <<config, fkind, fheight, fpc, fres, fresult, fwritten, spawnIdx, rxOpen,
                   collected, fileSem, folder, catVars, matchVars, traceVars, cfgVars, hexVars, ioVars>>

\* rx.recv() yields a message: Ok is dropped, Err makes decode_logs return the
\* error at once, which drops the receiver and the join handles, ends
\* decode_log_file and the file task and so releases the file permit.
Recv(f) ==
    /\ fpc[f] = "receiving"
    /\ chan[f] # <<>>
    /\ IF Head(chan[f]) = "Ok"
       THEN /\ chan' = [chan EXCEPT ![f] = Tail(@)]
            /\ UNCHANGED <<fpc, fres, rxOpen, fileSem>>
       ELSE /\ chan' = [chan EXCEPT ![f] = <<>>]
            /\ rxOpen' = [rxOpen EXCEPT ![f] = FALSE]
            /\ fpc' = [fpc EXCEPT ![f] = "done"]
            /\ fres' = [fres EXCEPT ![f] = "err"]
            /\ fileSem' = fileSem + 1
    /\ UNCHANGED <<config, fkind, fheight, fresult, fwritten, spawnIdx, tasks, collected,
                   chunkSem, folder, catVars, matchVars, traceVars, cfgVars, hexVars, ioVars>>

AllSendersDropped(f) ==
    \A c \in 1..Len(tasks[f]) : tasks[f][c].pc \in {"done", "panicked"}

\* A decode_logs that does not await the handles of its chunk tasks: it unions
\* what was collected whether or not a chunk task panicked.
RecvClosed_noJoin(f) ==
    /\ fpc[f] = "receiving"
    /\ chan[f] = <<>>
    /\ AllSendersDropped(f)
    /\ LET union == UnionDataframes(collected[f])
       IN  /\ fres' = [fres EXCEPT ![f] = IF union.ok THEN "ok" ELSE "err"]
           /\ fresult' = [fresult EXCEPT ![f] = IF union.ok THEN union.rows ELSE <<>>]
           /\ fwritten' = [fwritten EXCEPT ![f] = union.ok]
    /\ rxOpen' = [rxOpen EXCEPT ![f] = FALSE]
    /\ fpc' = [fpc EXCEPT ![f] = "done"]
    /\ fileSem' = fileSem + 1
    /\ UNCHANGED <<config, fkind, fheight, spawnIdx, tasks, chan, collected,
                   chunkSem, folder, catVars, matchVars, traceVars, cfgVars, hexVars, ioVars>>

\* rx.recv() yields None: the channel is empty and every sender is dropped.
\* The handles are awaited (a panicked chunk task gives a JoinError), the
\* collected chunks are unioned, decode_log_file writes the table and the file
\* task ends, releasing the file permit.
RecvClosed(f) ==
    /\ fpc[f] = "receiving"
    /\ chan[f] = <<>>
    /\ AllSendersDropped(f)
    /\ LET joinError == \E c \in 1..Len(tasks[f]) : tasks[f][c].pc = "panicked"
           union == UnionDataframes(collected[f])
       IN  /\ fres' = [fres EXCEPT ![f] = IF ~joinError /\ union.ok THEN "ok" ELSE "err"]
           /\ fresult' = [fresult EXCEPT ![f] = IF ~joinError /\ union.ok THEN union.rows ELSE <<>>]
           /\ fwritten' = [fwritten EXCEPT ![f] = ~joinError /\ union.ok]
    /\ rxOpen' = [rxOpen EXCEPT ![f] = FALSE]
    /\ fpc' = [fpc EXCEPT ![f] = "done"]
    /\ fileSem' = fileSem + 1
    /\ UNCHANGED <<config, fkind, fheight, spawnIdx, tasks, chan, collected,
                   chunkSem, folder, catVars, matchVars, traceVars, cfgVars, hexVars, ioVars>>

\* A decode_log_folder that awaits every handle and drops the results.
FolderJoin_ignoreResults ==
    /\ folder.pc = "joining"
    /\ folder.idx \in Files
    /\ fpc[folder.idx] = "done"
    /\ folder' = IF folder.idx + 1 \in Files
                 THEN [folder EXCEPT !.idx = @ + 1]
                 ELSE [folder EXCEPT !.pc = "returned", !.idx = @ + 1, !.res = "ok"]
    /\ UNCHANGED <<config, fkind, fheight, fpc, fres, fresult, fwritten, spawnIdx, tasks, chan,
                   rxOpen, collected, chunkSem, fileSem, catVars, matchVars, traceVars, cfgVars, hexVars, ioVars>>

\* decode_log_folder awaits the next handle: a task that returned Ok lets the
\* loop go on (and the function return Ok after the last handle), a task that
\* returned Err or panicked makes the function return that failure.
FolderJoin ==
    /\ folder.pc = "joining"
    /\ folder.idx \in Files
    /\ fpc[folder.idx] = "done"
    /\ folder' = IF fres[folder.idx] = "ok"
                 THEN IF folder.idx + 1 \in Files
                      THEN [folder EXCEPT !.idx = @ + 1]
                      ELSE [folder EXCEPT !.pc = "returned", !.idx = @ + 1, !.res = "ok"]
                 ELSE [folder EXCEPT !.pc = "returned", !.res = fres[folder.idx],
                                     !.failed = folder.idx]
    /\ UNCHANGED <<config, fkind, fheight, fpc, fres, fresult, fwritten, spawnIdx, tasks, chan,
                   rxOpen, collected, chunkSem, fileSem, catVars, matchVars, traceVars, cfgVars, hexVars, ioVars>>

NextOrch ==
    \/ \E f \in Files : FileStart(f)
    \/ \E f \in Files : SpawnChunk(f)
    \/ \E f \in Files : SpawnDone(f)
    \/ \E f \in Files : \E c \in 1..Len(tasks[f]) : ChunkAcquire(f, c)
    \/ \E f \in Files : \E c \in 1..Len(tasks[f]) : ChunkKernel(f, c)
    \/ \E f \in Files : \E c \in 1..Len(tasks[f]) : ChunkLock(f, c)
    \/ \E f \in Files : \E c \in 1..Len(tasks[f]) : ChunkSend(f, c)
    \/ \E f \in Files : Recv(f)
    \/ \E f \in Files : RecvClosed(f)
    \/ FolderJoin

\* One file: decode_logs on matched tables of every small height, with every
\* small chunk size.
InitChunks ==
    /\ IdleCatalog
    /\ IdleMatch
    /\ IdleTrace
    /\ IdleConfig
    /\ IdleHex
    /\ IdleIo
    /\ InitOrch(1, [kind : FileKinds, height : 0..MaxRows], 1..MaxChunkSize, 1..MaxPermits)

SpecChunks == InitChunks /\ [][NextOrch]_vars

\* The files a decoded folder is made of: good files of one and of two chunks,
\* a file whose task panics, a file whose chunks the kernel rejects.
FolderFiles ==
    {[kind |-> "ok", height |-> 1], [kind |-> "ok", height |-> 2],
     [kind |-> "panic", height |-> 1], [kind |-> "bad_schema", height |-> 2]}

\* A folder of several files, decoded with chunks of one row.
InitFolder ==
    /\ IdleCatalog
    /\ IdleMatch
    /\ IdleTrace
    /\ IdleConfig
    /\ IdleHex
    /\ IdleIo
    /\ InitOrch(NFiles, FolderFiles, {1}, 1..MaxPermits)

SpecFolder == InitFolder /\ [][NextOrch]_vars

-----------------------------------------------------------------------------
(* Claims about the orchestrator                                            *)

SeqToBag(s) == [x \in Range(s) |-> Cardinality({i \in 1..Len(s) : s[i] = x})]

\* The decoded rows of the whole matched table of file f, in slice order.
AllDecodedRows(f) == [i \in 1..fheight[f] |-> DecodedRow(i)]

\* C6: decode_logs on a matched table the kernel can process returns a result
\* that does not depend on the chunk size: for a table with rows, success with
\* the multiset of the decoded rows of the whole table, each matched row decoded
\* exactly once (for a table without rows, the error of the empty union).
C6_SameRowsForEveryChunkSize ==
    \A f \in Files :
        (fpc[f] = "done" /\ fkind[f] = "ok") =>
            /\ fres[f] = (IF fheight[f] > 0 THEN "ok" ELSE "err")
            /\ SeqToBag(fresult[f]) = SeqToBag(AllDecodedRows(f))

\* A table was decoded in two chunks, the last one shorter than the chunk size.
C6_Witness ==
    \E f \in Files :
        /\ fpc[f] = "done" /\ fres[f] = "ok"
        /\ Len(tasks[f]) = 2
        /\ tasks[f][2].hi - tasks[f][2].lo + 1 < config.decoded_chunk_size

FilePermitHolders == {f \in Files : fpc[f] \in {"spawning", "receiving"}}

\* The chunk tasks of file f that hold a chunk permit.
ChunkPermitHolders(f) ==
    {c \in 1..Len(tasks[f]) : tasks[f][c].pc \in {"kernel", "lock", "send", "senderr"}}

\* C8: at most max_concurrent_files_decoding file tasks hold a file permit,
\* and of the chunk tasks of one decode_logs call at most
\* max_chunk_threads_per_file hold a chunk permit.
C8_PermitsBoundConcurrency ==
    /\ Cardinality(FilePermitHolders) <= config.max_concurrent_files_decoding
    /\ \A f \in Files :
          Cardinality(ChunkPermitHolders(f)) <= config.max_chunk_threads_per_file

\* Both limits are reached while a file task and a chunk task wait for a permit.
C8_Witness ==
    /\ Cardinality(FilePermitHolders) = config.max_concurrent_files_decoding
    /\ \E f \in Files : fpc[f] = "wait_permit"
    /\ \E f \in Files :
          /\ Cardinality(ChunkPermitHolders(f)) = config.max_chunk_threads_per_file
          /\ \E c \in 1..Len(tasks[f]) : tasks[f][c].pc = "acquire"

\* The chunk tasks, of all files, that are executing the row kernel.
KernelWorkers ==
    UNION {{<<f, c>> : c \in {d \in 1..Len(tasks[f]) : tasks[f][d].pc = "kernel"}} :
           f \in Files}

\* C9: the number of chunk tasks executing the row kernel, over all files, is
\* at most max_concurrent_files_decoding * max_chunk_threads_per_file.
C9_TotalWorkersBounded ==
    Cardinality(KernelWorkers) <=
        config.max_concurrent_files_decoding * config.max_chunk_threads_per_file

C10_WitnessOk == folder.pc = "returned" /\ folder.res = "ok"

\* The row kernel fails on a chunk of file f: it returns Err on every chunk
\* ("bad_schema") or panics on the chunk that holds row 1 ("bad_row").
KernelFails(f) == fkind[f] \in {"bad_schema", "bad_row"} /\ fheight[f] > 0

\* C11: when the row kernel fails on a chunk of a file, decode_logs returns a
\* failure and no table, whatever the other chunk tasks did, and
\* decode_log_file returns a failure without writing the output file.
C11_ChunkFailureFailsFile ==
    \A f \in Files :
        KernelFails(f) =>
            /\ ~fwritten[f]
            /\ fresult[f] = <<>>
            /\ fpc[f] = "done" => fres[f] = "err"

\* decode_log_file ended after one chunk task had failed in the kernel and
\* another had pushed its decoded chunk.
C11_Witness ==
    \E f \in Files :
        /\ KernelFails(f)
        /\ fpc[f] = "done"
        /\ collected[f] # <<>>
        /\ \E c \in 1..Len(tasks[f]) : tasks[f][c].pc = "panicked"

-----------------------------------------------------------------------------
(* Matcher and row kernel: matcher.rs, log_decoder.rs, utils.rs, and        *)
(* decode_log_df_with_abi_df of decoder.rs                                  *)

\* The null value of a column.
Null == "null"

\* The raw log rows of the model, binary columns in binary form.  data is
\* "plain" for a body that decodes, "semi" for a body that decodes to a string
\* value holding a ';', "bad" for a body the signature cannot decode.  A topic
\* is Null, a 32-byte value, or "short", a value of fewer than 32 bytes.
LogRows ==
    {[topic0 |-> "h1", topic1 |-> Null, topic2 |-> Null, topic3 |-> Null,
      address |-> "0xA", data |-> "plain"],
     [topic0 |-> "h1", topic1 |-> Null, topic2 |-> Null, topic3 |-> Null,
      address |-> "0xB", data |-> "semi"],
     [topic0 |-> "h2", topic1 |-> "t1", topic2 |-> Null, topic3 |-> Null,
      address |-> "0xA", data |-> "plain"],
     [topic0 |-> Null, topic1 |-> Null, topic2 |-> Null, topic3 |-> Null,
      address |-> "0xA", data |-> "plain"],
     [topic0 |-> "h1", topic1 |-> Null, topic2 |-> Null, topic3 |-> Null,
      address |-> "0xA", data |-> "bad"],
     [topic0 |-> "h2", topic1 |-> "short", topic2 |-> Null, topic3 |-> Null,
      address |-> "0xB", data |-> "plain"]}

\* A raw log table: its rows carry their position as the log_index column.
RawTable(rows) ==
    [i \in 1..Len(rows) |->
        [log_index |-> i, topic0 |-> rows[i].topic0, topic1 |-> rows[i].topic1,
         topic2 |-> rows[i].topic2, topic3 |-> rows[i].topic3,
         address |-> rows[i].address, data |-> rows[i].data]]

\* The rows an ABI catalog can hold: two signatures of the same hash at one
\* address, one of them also at another address, and an event of another hash.
AbiRows ==
    <<[address |-> "0xA", hash |-> "h1", full_signature |-> "Message(string a)",
       name |-> "Message", num_indexed_args |-> 1, id |-> "a1"],
      [address |-> "0xA", hash |-> "h1", full_signature |-> "Message(string b)",
       name |-> "Message", num_indexed_args |-> 1, id |-> "a2"],
      [address |-> "0xC", hash |-> "h1", full_signature |-> "Message(string b)",
       name |-> "Message", num_indexed_args |-> 1, id |-> "a3"],
      [address |-> "0xB", hash |-> "h2", full_signature |-> "Approval(address indexed o, string s)",
       name |-> "Approval", num_indexed_args |-> 2, id |-> "a4"]>>

\* The elements of seq whose index is in S, in the order of seq.
SubSeqOf(seq, S) ==
    LET F[i \in 0..Len(seq)] ==
            IF i = 0 THEN <<>>
            ELSE IF i \in S THEN Append(F[i - 1], seq[i]) ELSE F[i - 1]
    IN  F[Len(seq)]

\* lit(1) + topic1.is_not_null() + topic2.is_not_null() + topic3.is_not_null()
NumIndexedArgs(r) ==
    1 + (IF r.topic1 # Null THEN 1 ELSE 0) + (IF r.topic2 # Null THEN 1 ELSE 0)
      + (IF r.topic3 # Null THEN 1 ELSE 0)

\* The ABI columns of a left row without a match.
NullAbi == [full_signature |-> Null, name |-> Null, id |-> Null]

\* A row of a join: the log columns, num_indexed_args, and the ABI columns
\* that are not join keys.
JoinRow(r, a) ==
    [log_index |-> r.log_index, topic0 |-> r.topic0, topic1 |-> r.topic1,
     topic2 |-> r.topic2, topic3 |-> r.topic3, address |-> r.address, data |-> r.data,
     num_indexed_args |-> NumIndexedArgs(r),
     full_signature |-> a.full_signature, name |-> a.name, id |-> a.id]

\* The join keys of the first pass; a null key matches nothing.
OnTopic0Address(r, a) ==
    /\ r.topic0 # Null
    /\ r.topic0 = a.hash
    /\ r.address = a.address
    /\ NumIndexedArgs(r) = a.num_indexed_args

\* The join keys of the second pass.
OnTopic0(r, a) ==
    /\ r.topic0 # Null
    /\ r.topic0 = a.hash
    /\ NumIndexedArgs(r) = a.num_indexed_args

\* A left join on the keys of the first pass ("topic0_address") or of the
\* second ("topic0"): every left row once per matching right row, and once with
\* null right columns when nothing matches.
LeftJoin(logs, abi, keys) ==
    Flatten([i \in 1..Len(logs) |->
        LET ms == SelectSeq(abi, LAMBDA a : IF keys = "topic0_address"
                                            THEN OnTopic0Address(logs[i], a)
                                            ELSE OnTopic0(logs[i], a))
        IN  IF ms = <<>> THEN <<JoinRow(logs[i], NullAbi)>>
            ELSE [k \in 1..Len(ms) |-> JoinRow(logs[i], ms[k])]])

match_logs_by_topic0_address(logs, abi) == LeftJoin(logs, abi, "topic0_address")

\* Number of catalog rows in the group (hash, full_signature, name,
\* num_indexed_args) of row a.
SignatureCount(abi, a) ==
    Cardinality({j \in 1..Len(abi) :
        /\ abi[j].hash = a.hash /\ abi[j].full_signature = a.full_signature
        /\ abi[j].name = a.name /\ abi[j].num_indexed_args = a.num_indexed_args})

\* The second group_by keeping the first row of each (hash, num_indexed_args)
\* of the unsorted table: row i is the first row of its signature group.
IsMostFrequent_unsorted(abi, i) ==
    \A j \in 1..(i - 1) :
        ~(/\ abi[j].hash = abi[i].hash /\ abi[j].full_signature = abi[i].full_signature
          /\ abi[j].name = abi[i].name
          /\ abi[j].num_indexed_args = abi[i].num_indexed_args)

\* Row i is the first row of its signature group, and no signature of the same
\* (hash, num_indexed_args) is more frequent.
IsMostFrequent(abi, i) ==
    /\ \A j \in 1..(i - 1) :
          ~(/\ abi[j].hash = abi[i].hash /\ abi[j].full_signature = abi[i].full_signature
            /\ abi[j].name = abi[i].name
            /\ abi[j].num_indexed_args = abi[i].num_indexed_args)
    /\ \A j \in 1..Len(abi) :
          (abi[j].hash = abi[i].hash /\ abi[j].num_indexed_args = abi[i].num_indexed_args)
              => SignatureCount(abi, abi[j]) <= SignatureCount(abi, abi[i])

AbiKeys(abi) == {<<abi[i].hash, abi[i].num_indexed_args>> : i \in 1..Len(abi)}

\* The tables the group_by / sort / group_by of match_logs_by_topic0 can yield:
\* one row per (hash, num_indexed_args), of a most frequent signature; the sort
\* does not order signatures of equal frequency.
MostFrequentChoices(abi) ==
    {f \in [AbiKeys(abi) -> 1..Len(abi)] :
        \A k \in AbiKeys(abi) :
            /\ <<abi[f[k]].hash, abi[f[k]].num_indexed_args>> = k
            /\ IsMostFrequent(abi, f[k])}

\* The log columns of a joined row: select(log_df_cols).
LogCols(m) ==
    [log_index |-> m.log_index, topic0 |-> m.topic0, topic1 |-> m.topic1,
     topic2 |-> m.topic2, topic3 |-> m.topic3, address |-> m.address, data |-> m.data]

\* A second pass that is dropped: only the rows matched by address are kept.
match_logs_by_topic0_matchedOnly(logs, abi, f) ==
    SelectSeq(match_logs_by_topic0_address(logs, abi), LAMBDA m : m.full_signature # Null)

\* match_logs_by_topic0, f being the most-frequent table the sort produced.
match_logs_by_topic0(logs, abi, f) ==
    LET logs_1 == match_logs_by_topic0_address(logs, abi)
        logs_address_matched == SelectSeq(logs_1, LAMBDA m : m.full_signature # Null)
        not_matched == SelectSeq(logs_1, LAMBDA m : m.full_signature = Null)
        logs_address_not_matched == [i \in 1..Len(not_matched) |-> LogCols(not_matched[i])]
        abi_df == SubSeqOf(abi, {f[k] : k \in AbiKeys(abi)})
        logs_2 == LeftJoin(logs_address_not_matched, abi_df, "topic0")
    IN  logs_address_matched \o logs_2

\* Event::parse on the signatures of the model: the parameters in declaration
\* order.  Parsing the empty string fails.
EventParse(sig) ==
    CASE sig = "Message(string a)" ->
            [ok |-> TRUE, inputs |-> <<[name |-> "a", ty |-> "string", indexed |-> FALSE]>>]
      [] sig = "Message(string b)" ->
            [ok |-> TRUE, inputs |-> <<[name |-> "b", ty |-> "string", indexed |-> FALSE]>>]
      [] sig = "Approval(address indexed o, string s)" ->
            [ok |-> TRUE, inputs |-> <<[name |-> "o", ty |-> "address", indexed |-> TRUE],
                                       [name |-> "s", ty |-> "string", indexed |-> FALSE]>>]
      [] OTHER -> [ok |-> FALSE, inputs |-> <<>>]

\* FixedBytes::<32>::from_slice panics unless the slice has 32 bytes.
FromSlicePanics(topic) == topic = "short"

\* extract_log_fields: a null topic becomes the zero topic, null data the empty
\* body, a null signature the empty string; a topic that is not 32 bytes long
\* makes from_slice panic.
extract_log_fields(m) ==
    [topics |-> <<IF m.topic0 = Null THEN "zero" ELSE m.topic0,
                  IF m.topic1 = Null THEN "zero" ELSE m.topic1,
                  IF m.topic2 = Null THEN "zero" ELSE m.topic2,
                  IF m.topic3 = Null THEN "zero" ELSE m.topic3>>,
     data |-> IF m.data = Null THEN "" ELSE m.data,
     sig |-> IF m.full_signature = Null THEN "" ELSE m.full_signature,
     panics |-> \/ FromSlicePanics(m.topic0) \/ FromSlicePanics(m.topic1)
                \/ FromSlicePanics(m.topic2) \/ FromSlicePanics(m.topic3)]

\* A text is a sequence of tokens; ';' , ',' , '[' and ']' are tokens of their
\* own.  The decoded value of a parameter, as text: a string value can hold a ';'.
ValueText(param, data) ==
    IF param.ty = "string"
    THEN IF data = "semi" THEN <<"v", ";", "w", ";", "x">> ELSE <<"v">>
    ELSE <<"0xv">>

\* The texts of items, separated by ',' and enclosed in brackets.
RECURSIVE JoinTexts(_)
JoinTexts(items) ==
    IF items = <<>> THEN <<>>
    ELSE IF Len(items) = 1 THEN items[1]
    ELSE items[1] \o <<",">> \o JoinTexts(Tail(items))

ListText(items) == <<"[">> \o JoinTexts(items) \o <<"]">>

\* map_event_sig_and_values: the indexed inputs, then the others.
map_event_sig_and_values(inputs) ==
    SelectSeq(inputs, LAMBDA e : e.indexed) \o SelectSeq(inputs, LAMBDA e : ~e.indexed)

\* decode: Event::parse fails on the empty signature, decode_log_parts on a body
\* the signature cannot decode.  On success the three strings of the decoded
\* event: the Debug form of the values, of the parameter names, and the JSON
\* array of the structured parameters.
decode(sig, topics, data) ==
    LET event_obj == EventParse(sig)
        event_inputs == map_event_sig_and_values(event_obj.inputs)
    IN  IF ~event_obj.ok \/ data = "bad"
        THEN [ok |-> FALSE, event_values |-> <<>>, event_keys |-> <<>>, event_json |-> <<>>]
        ELSE [ok |-> TRUE,
              event_values |-> ListText([i \in 1..Len(event_inputs) |->
                                            ValueText(event_inputs[i], data)]),
              event_keys |-> ListText([i \in 1..Len(event_inputs) |->
                                            <<event_inputs[i].name>>]),
              event_json |-> ListText([i \in 1..Len(event_inputs) |->
                                <<"{", event_inputs[i].name, event_inputs[i].ty>>
                                \o ValueText(event_inputs[i], data) \o <<"}">>])]

\* The pieces of a text between its ';' tokens: str().split(";").
RECURSIVE SplitText(_)
SplitText(text) ==
    IF \A i \in 1..Len(text) : text[i] # ";" THEN <<text>>
    ELSE LET p == CHOOSE i \in 1..Len(text) :
                      text[i] = ";" /\ \A j \in 1..(i - 1) : text[j] # ";"
         IN  <<SubSeq(text, 1, p - 1)>> \o SplitText(SubSeq(text, p + 1, Len(text)))

\* decode_log_udf on one row: the formatted string "values; keys; json", and
\* its pieces between ';', or null when decode failed (.ok()).
decode_log_udf(m) ==
    LET x == extract_log_fields(m)
        event == decode(x.sig, x.topics, x.data)
        text == event.event_values \o <<";">> \o event.event_keys \o <<";">> \o event.event_json
    IN  IF event.ok
        THEN [null |-> FALSE, pieces |-> SplitText(text)]
        ELSE [null |-> TRUE, pieces |-> <<>>]

\* col.str().split(";").list().get(i)
SplitGet(decoded_log, i) ==
    IF decoded_log.null THEN Null
    ELSE IF i + 1 <= Len(decoded_log.pieces) THEN decoded_log.pieces[i + 1]
    ELSE Null

\* binary_columns_to_hex_string on one value: hex_encode, then concat_str
\* of "0x" and the value with ignore_nulls, which turns null into "0x".
binary_columns_to_hex_string(b) == "0x" \o (IF b = Null THEN "" ELSE b)

\* The output form of a binary column.
OutBinary(b, hex) == IF hex THEN binary_columns_to_hex_string(b) ELSE b

\* polars_decode_logs on one row of a chunk.
DecodeRow(m, hex) ==
    LET decoded_log == decode_log_udf(m)
    IN  [log_index |-> m.log_index,
         topic0 |-> OutBinary(m.topic0, hex), topic1 |-> OutBinary(m.topic1, hex),
         topic2 |-> OutBinary(m.topic2, hex), topic3 |-> OutBinary(m.topic3, hex),
         address |-> OutBinary(m.address, hex), data |-> OutBinary(m.data, hex),
         num_indexed_args |-> m.num_indexed_args,
         full_signature |-> m.full_signature, name |-> m.name, id |-> m.id,
         event_values |-> SplitGet(decoded_log, 0),
         event_keys |-> SplitGet(decoded_log, 1),
         event_json |-> SplitGet(decoded_log, 2)]

\* The slices decode_logs cuts the matched table into.
NumChunks(n, size) == (n + size - 1) \div size

ChunkOf(rows, size, c) ==
    SubSeq(rows, (c - 1) * size + 1, Min(c * size, Len(rows)))

\* polars_decode_logs with the decode error of a row propagated instead of
\* absorbed by .ok().
polars_decode_logs_propagate(chunk, hex) ==
    IF \E i \in 1..Len(chunk) :
           \/ extract_log_fields(chunk[i]).panics
           \/ decode_log_udf(chunk[i]).null
    THEN [status |-> "panic", rows |-> <<>>]
    ELSE [status |-> "ok", rows |-> [i \in 1..Len(chunk) |-> DecodeRow(chunk[i], hex)]]

\* polars_decode_logs on a chunk: the UDF runs extract_log_fields on every row
\* of the chunk before it decodes any, so one panicking row ends the kernel.
polars_decode_logs(chunk, hex) ==
    IF \E i \in 1..Len(chunk) : extract_log_fields(chunk[i]).panics
    THEN [status |-> "panic", rows |-> <<>>]
    ELSE [status |-> "ok", rows |-> [i \in 1..Len(chunk) |-> DecodeRow(chunk[i], hex)]]

\* decode_logs for one order of completion of the chunk tasks: the decoded
\* chunks are unioned in the order they were pushed; a chunk task that panicked
\* makes decode_logs return the JoinError.
decode_logs(rows, size, hex, order) ==
    LET n == NumChunks(Len(rows), size)
        decoded == [k \in 1..n |-> polars_decode_logs(ChunkOf(rows, size, order[k]), hex)]
    IN  IF \E k \in 1..n : decoded[k].status = "panic"
        THEN [ok |-> FALSE, rows |-> <<>>]
        ELSE UnionDataframes([k \in 1..n |-> decoded[k].rows])

\* The inputs of decode_log_df_with_abi_df: a configuration whose chunk size
\* cuts the tables of the model into one or several chunks, a raw table and a
\* catalog.
InitMatch ==
    /\ IdleCatalog
    /\ IdleOrch
    /\ IdleTrace
    /\ IdleConfig
    /\ IdleHex
    /\ IdleIo
    /\ decCfg \in [algorithm : {"topic0_address", "topic0"},
                   output_hex_string_encoding : BOOLEAN,
                   decoded_chunk_size : (MaxLogs - 1)..MaxLogs]
    /\ rawLogs \in {RawTable(rows) : rows \in SeqsUpTo(LogRows, MaxLogs)}
    /\ abiDf \in {SubSeqOf(AbiRows, S) : S \in SUBSET (1..Len(AbiRows))}
    /\ matched = <<>>
    /\ output = [ok |-> FALSE, rows |-> <<>>]
    /\ mpc = "start"

\* decode_log_df_with_abi_df: the matcher of the configured algorithm, then
\* decode_logs on the matched table.
DecodeLogDfWithAbiDf ==
    /\ mpc = "start"
    /\ \E f \in MostFrequentChoices(abiDf) :
          matched' = IF decCfg.algorithm = "topic0_address"
                     THEN match_logs_by_topic0_address(rawLogs, abiDf)
                     ELSE match_logs_by_topic0(rawLogs, abiDf, f)
    /\ \E order \in Permutations(1..NumChunks(Len(matched'), decCfg.decoded_chunk_size)) :
          output' = decode_logs(matched', decCfg.decoded_chunk_size,
                                decCfg.output_hex_string_encoding, order)
    /\ mpc' = "returned"
    /\ UNCHANGED <<decCfg, rawLogs, abiDf, catVars, orchVars, traceVars, cfgVars, hexVars, ioVars>>

NextMatch == DecodeLogDfWithAbiDf

SpecMatch == InitMatch /\ [][NextMatch]_vars

-----------------------------------------------------------------------------
(* Claims about the matcher and the row kernel                              *)

\* Output row o is raw row r: its log columns are those of r in output form.
IsRawRow(o, r) ==
    /\ o.log_index = r.log_index
    /\ o.topic0 = OutBinary(r.topic0, decCfg.output_hex_string_encoding)
    /\ o.topic1 = OutBinary(r.topic1, decCfg.output_hex_string_encoding)
    /\ o.topic2 = OutBinary(r.topic2, decCfg.output_hex_string_encoding)
    /\ o.topic3 = OutBinary(r.topic3, decCfg.output_hex_string_encoding)
    /\ o.address = OutBinary(r.address, decCfg.output_hex_string_encoding)
    /\ o.data = OutBinary(r.data, decCfg.output_hex_string_encoding)

RowFails(m) ==
    \/ ~EventParse(extract_log_fields(m).sig).ok
    \/ m.data = "bad"

\* The decoded columns the kernel gives row m when m is alone in its chunk.
DecodedAlone(m) ==
    LET d == DecodeRow(m, decCfg.output_hex_string_encoding)
    IN  IF RowFails(m)
        THEN [d EXCEPT !.event_values = Null, !.event_keys = Null, !.event_json = Null]
        ELSE d

\* The raw rows are rows of the data model: each topic is 32 bytes or null.
TopicsAre32Bytes ==
    \A i \in 1..Len(rawLogs) :
        ~extract_log_fields([rawLogs[i] EXCEPT !.data = Null] @@ [full_signature |-> Null]).panics

WellFormedArray(text) ==
    /\ text # Null
    /\ Len(text) >= 2
    /\ text[1] = "[" /\ text[Len(text)] = "]"
    /\ \A i \in 2..(Len(text) - 1) : text[i] \notin {"[", "]"}
    /\ Cardinality({i \in 1..Len(text) : text[i] = "{"})
         = Cardinality({i \in 1..Len(text) : text[i] = "}"})

\* The number of entries of a well-formed array.
Entries(text) ==
    IF Len(text) = 2 THEN 0
    ELSE 1 + Cardinality({i \in 1..Len(text) : text[i] = ","})

\* The number of parameters of a signature.
ParamCount(sig) == Len(EventParse(sig).inputs)

\* C13: in the returned table, every row with a signature whose decode
\* succeeded (its decoded columns are not null) has as many entries in
\* event_values as in event_keys and as the signature has parameters, also when
\* a decoded string value contains ';'.
C13_EntryCountsMatchParams ==
    (mpc = "returned" /\ output.ok) =>
        \A i \in 1..Len(output.rows) :
            LET r == output.rows[i] IN
            (r.full_signature # Null /\ r.event_values # Null) =>
                /\ WellFormedArray(r.event_values)
                /\ WellFormedArray(r.event_keys)
                /\ Entries(r.event_values) = ParamCount(r.full_signature)
                /\ Entries(r.event_keys) = ParamCount(r.full_signature)

\* C13 for the rows whose body holds no string with a ';'.
C13_WithoutSeparatorInValues ==
    (mpc = "returned" /\ output.ok) =>
        \A i \in 1..Len(output.rows) :
            LET r == output.rows[i] IN
            (r.full_signature # Null /\ r.event_values # Null
                /\ r.data \notin {"semi", "0xsemi"}) =>
                /\ WellFormedArray(r.event_values)
                /\ WellFormedArray(r.event_keys)
                /\ Entries(r.event_values) = ParamCount(r.full_signature)
                /\ Entries(r.event_keys) = ParamCount(r.full_signature)

\* C14: in the returned table, every row with a signature has an event_json
\* that is the empty array or a well-formed array with as many elements as the
\* signature has parameters.
C14_EventJsonWellFormed ==
    (mpc = "returned" /\ output.ok) =>
        \A i \in 1..Len(output.rows) :
            LET r == output.rows[i] IN
            r.full_signature # Null =>
                /\ WellFormedArray(r.event_json)
                /\ \/ Entries(r.event_json) = 0
                   \/ Entries(r.event_json) = ParamCount(r.full_signature)

\* C14 for the rows that decoded.
C14_EventJsonOfDecodedRows ==
    (mpc = "returned" /\ output.ok) =>
        \A i \in 1..Len(output.rows) :
            LET r == output.rows[i] IN
            (r.full_signature # Null /\ r.event_values # Null) =>
                /\ WellFormedArray(r.event_json)
                /\ \/ Entries(r.event_json) = 0
                   \/ Entries(r.event_json) = ParamCount(r.full_signature)

\* The catalog rows of signature sig among those of hash h with n indexed
\* arguments.
CatalogRowCount(h, n, sig) ==
    Cardinality({j \in 1..Len(abiDf) :
        /\ abiDf[j].hash = h /\ abiDf[j].num_indexed_args = n
        /\ abiDf[j].full_signature = sig})

\* The signatures the matched table gives raw row r.
SignaturesOf(r) ==
    {matched[j].full_signature :
        j \in {k \in 1..Len(matched) : matched[k].log_index = r.log_index}}

\* The signatures of the catalog entries equal to raw row r on
\* (hash, address, num_indexed_args).
AddressSignatures(r) ==
    {abiDf[j].full_signature :
        j \in {k \in 1..Len(abiDf) : OnTopic0Address(r, abiDf[k])}}

\* The signatures of the catalog entries equal to raw row r on
\* (hash, num_indexed_args).
HashSignatures(r) ==
    {abiDf[j].full_signature :
        j \in {k \in 1..Len(abiDf) : OnTopic0(r, abiDf[k])}}

\* C15: under the two-pass algorithm, a raw row with catalog entries of its
\* (hash, address, num_indexed_args) gets the signatures of those entries,
\* whatever the frequencies; any other raw row whose (topic0, num_indexed_args)
\* is in the catalog gets one signature, of maximal catalog row count for that
\* (hash, num_indexed_args); every remaining row gets the null signature.
C15_TwoPassSelection ==
    (mpc = "returned" /\ decCfg.algorithm = "topic0") =>
        \A i \in 1..Len(rawLogs) :
            LET r == rawLogs[i] IN
            IF AddressSignatures(r) # {}
            THEN SignaturesOf(r) = AddressSignatures(r)
            ELSE IF HashSignatures(r) # {}
            THEN \E sig \in HashSignatures(r) :
                    /\ SignaturesOf(r) = {sig}
                    /\ \A other \in HashSignatures(r) :
                          CatalogRowCount(r.topic0, NumIndexedArgs(r), other)
                              <= CatalogRowCount(r.topic0, NumIndexedArgs(r), sig)
            ELSE SignaturesOf(r) = {Null}

\* A returned two-pass call with a row matched by address to a signature that
\* is not the most frequent of its hash, and a row matched by hash only where
\* the catalog holds several signatures of that hash.
C15_Witness ==
    /\ mpc = "returned"
    /\ decCfg.algorithm = "topic0"
    /\ \E i \in 1..Len(rawLogs) :
          LET r == rawLogs[i] IN
          /\ AddressSignatures(r) # {}
          /\ \E sig \in AddressSignatures(r), other \in HashSignatures(r) :
                /\ sig \in SignaturesOf(r)
                /\ CatalogRowCount(r.topic0, NumIndexedArgs(r), sig)
                     < CatalogRowCount(r.topic0, NumIndexedArgs(r), other)
    /\ \E i \in 1..Len(rawLogs) :
          LET r == rawLogs[i] IN
          /\ AddressSignatures(r) = {}
          /\ Cardinality(HashSignatures(r)) > 1
          /\ SignaturesOf(r) \subseteq HashSignatures(r)

\* The rows the matcher output has for raw row r.
MatchedRowsOf(r) == {j \in 1..Len(matched) : matched[j].log_index = r.log_index}

\* No two rows of the catalog have the same hash, address and
\* num_indexed_args.
UniqueJoinKeys ==
    \A a, b \in 1..Len(abiDf) :
        (/\ abiDf[a].hash = abiDf[b].hash
         /\ abiDf[a].address = abiDf[b].address
         /\ abiDf[a].num_indexed_args = abiDf[b].num_indexed_args) => a = b

\* C30: the matcher output has exactly one row per raw input row, under both
\* algorithms: the left join never duplicates a raw row, also when the catalog
\* holds several rows with the same join key (same hash, address and
\* num_indexed_args but different full_signature or id), and the two-pass
\* split sends each raw row to exactly one of the matched and unmatched parts.
C30_OneRowPerRawRow ==
    mpc = "returned" =>
        /\ Len(matched) = Len(rawLogs)
        /\ \A i \in 1..Len(rawLogs) : Cardinality(MatchedRowsOf(rawLogs[i])) = 1

\* C30 for a catalog without two rows of the same join key: one output row
\* per raw row under both algorithms; and in general every raw row is kept at
\* least once.
C30_OneRowPerRawRowForUniqueKeys ==
    mpc = "returned" =>
        /\ \A i \in 1..Len(rawLogs) : Cardinality(MatchedRowsOf(rawLogs[i])) >= 1
        /\ UniqueJoinKeys =>
              /\ Len(matched) = Len(rawLogs)
              /\ \A i \in 1..Len(rawLogs) : Cardinality(MatchedRowsOf(rawLogs[i])) = 1

-----------------------------------------------------------------------------
(* The trace matcher and kernel: trace_decoder.rs, matcher.rs               *)

\* The raw trace rows of the model: a call to a contract of the catalog, the
\* same selector at an address the catalog lacks, a selector the catalog lacks,
\* a row without selector, and a call whose input does not decode.
TraceRows ==
    {[selector |-> "s1", action_to |-> "0xA", input |-> "plain", output |-> "plain"],
     [selector |-> "s1", action_to |-> "0xB", input |-> "plain", output |-> "plain"],
     [selector |-> "s2", action_to |-> "0xA", input |-> "plain", output |-> "plain"],
     [selector |-> Null, action_to |-> "0xA", input |-> "plain", output |-> "plain"],
     [selector |-> "s1", action_to |-> "0xB", input |-> "bad", output |-> "plain"]}

\* A raw trace table: its rows carry their position as the trace_index column.
TraceTable(rows) ==
    [i \in 1..Len(rows) |->
        [trace_index |-> i, selector |-> rows[i].selector, action_to |-> rows[i].action_to,
         input |-> rows[i].input, output |-> rows[i].output]]

\* The function rows an ABI catalog can hold: two signatures of one selector,
\* one of them at two addresses.
FnAbiRows ==
    <<[address |-> "0xA", hash |-> "s1", full_signature |-> "transfer(address to)",
       name |-> "transfer", id |-> "f1"],
      [address |-> "0xC", hash |-> "s1", full_signature |-> "transfer(address dst)",
       name |-> "transfer", id |-> "f2"],
      [address |-> "0xD", hash |-> "s1", full_signature |-> "transfer(address dst)",
       name |-> "transfer", id |-> "f3"]>>

\* A row of a trace join: the trace columns and the ABI columns that are not
\* join keys.
TraceJoinRow(r, a) ==
    [trace_index |-> r.trace_index, selector |-> r.selector, action_to |-> r.action_to,
     input |-> r.input, output |-> r.output,
     full_signature |-> a.full_signature, name |-> a.name, id |-> a.id]

\* The join keys of match_traces_by_4bytes_address; a null key matches nothing.
On4BytesAddress(r, a) ==
    /\ r.selector # Null
    /\ r.selector = a.hash
    /\ r.action_to = a.address

\* The join key of the second pass of match_traces_by_4bytes.
On4Bytes(r, a) ==
    /\ r.selector # Null
    /\ r.selector = a.hash

\* A left join of the traces with the catalog on the keys of the first pass
\* ("4bytes_address") or of the second ("4bytes").
TraceLeftJoin(traces, abi, keys) ==
    Flatten([i \in 1..Len(traces) |->
        LET ms == SelectSeq(abi, LAMBDA a : IF keys = "4bytes_address"
                                            THEN On4BytesAddress(traces[i], a)
                                            ELSE On4Bytes(traces[i], a))
        IN  IF ms = <<>> THEN <<TraceJoinRow(traces[i], NullAbi)>>
            ELSE [k \in 1..Len(ms) |-> TraceJoinRow(traces[i], ms[k])]])

match_traces_by_4bytes_address(traces, abi) == TraceLeftJoin(traces, abi, "4bytes_address")

\* Number of catalog rows in the group (hash, full_signature, name) of row a.
FnSignatureCount(abi, a) ==
    Cardinality({j \in 1..Len(abi) :
        /\ abi[j].hash = a.hash /\ abi[j].full_signature = a.full_signature
        /\ abi[j].name = a.name})

\* Row i is the first row of its signature group, and no signature of the same
\* hash is more frequent.
FnIsMostFrequent(abi, i) ==
    /\ \A j \in 1..(i - 1) :
          ~(/\ abi[j].hash = abi[i].hash /\ abi[j].full_signature = abi[i].full_signature
            /\ abi[j].name = abi[i].name)
    /\ \A j \in 1..Len(abi) :
          abi[j].hash = abi[i].hash => FnSignatureCount(abi, abi[j]) <= FnSignatureCount(abi, abi[i])

FnAbiKeys(abi) == {abi[i].hash : i \in 1..Len(abi)}

\* The tables the group_by / sort / group_by of match_traces_by_4bytes can
\* yield: one row per hash, of a most frequent signature.
FnMostFrequentChoices(abi) ==
    {f \in [FnAbiKeys(abi) -> 1..Len(abi)] :
        \A k \in FnAbiKeys(abi) : abi[f[k]].hash = k /\ FnIsMostFrequent(abi, f[k])}

\* The trace columns of a joined row: select(trace_df_cols).
TraceCols(m) ==
    [trace_index |-> m.trace_index, selector |-> m.selector, action_to |-> m.action_to,
     input |-> m.input, output |-> m.output]

\* match_traces_by_4bytes, f being the most-frequent table the sort produced.
match_traces_by_4bytes(traces, abi, f) ==
    LET traces_1 == match_traces_by_4bytes_address(traces, abi)
        traces_address_matched == SelectSeq(traces_1, LAMBDA m : m.full_signature # Null)
        not_matched == SelectSeq(traces_1, LAMBDA m : m.full_signature = Null)
        traces_address_not_matched == [i \in 1..Len(not_matched) |-> TraceCols(not_matched[i])]
        abi_df == SubSeqOf(abi, {f[k] : k \in FnAbiKeys(abi)})
        trace_2 == TraceLeftJoin(traces_address_not_matched, abi_df, "4bytes")
    IN  traces_address_matched \o trace_2

\* Function::parse on the signatures of the model.  Parsing the empty string
\* fails.
FunctionParse(sig) ==
    CASE sig = "transfer(address to)" ->
            [ok |-> TRUE, inputs |-> <<[name |-> "to", ty |-> "address"]>>, outputs |-> <<>>]
      [] sig = "transfer(address dst)" ->
            [ok |-> TRUE, inputs |-> <<[name |-> "dst", ty |-> "address"]>>, outputs |-> <<>>]
      [] OTHER -> [ok |-> FALSE, inputs |-> <<>>, outputs |-> <<>>]

\* extract_trace_fields: null input and output become empty, a null signature
\* the empty string.
extract_trace_fields(m) ==
    [input |-> IF m.input = Null THEN "" ELSE m.input,
     output |-> IF m.output = Null THEN "" ELSE m.output,
     sig |-> IF m.full_signature = Null THEN "" ELSE m.full_signature]

\* map_function_params: one structured parameter per parameter, as JSON text.
map_function_params(params, data) ==
    ListText([i \in 1..Len(params) |->
        <<"{", params[i].name, params[i].ty>> \o ValueText(params[i], data) \o <<"}">>])

\* decode of trace_decoder.rs: the six strings of a decoded call, or failure
\* when the signature does not parse or the input or output does not decode.
trace_decode(input, out, full_signature) ==
    LET function_obj == FunctionParse(full_signature)
    IN  IF ~function_obj.ok \/ input = "bad" \/ out = "bad"
        THEN [ok |-> FALSE, parts |-> <<>>]
        ELSE [ok |-> TRUE,
              parts |-> <<ListText([i \in 1..Len(function_obj.inputs) |->
                                       ValueText(function_obj.inputs[i], input)]),
                          ListText([i \in 1..Len(function_obj.inputs) |->
                                       <<function_obj.inputs[i].name>>]),
                          map_function_params(function_obj.inputs, input),
                          ListText([i \in 1..Len(function_obj.outputs) |->
                                       ValueText(function_obj.outputs[i], out)]),
                          ListText([i \in 1..Len(function_obj.outputs) |->
                                       <<function_obj.outputs[i].name>>]),
                          map_function_params(function_obj.outputs, out)>>]

\* decode_trace_udf on one row: the formatted string of six parts and its
\* pieces between ';', or null when decode failed (.ok()).
decode_trace_udf(m) ==
    LET x == extract_trace_fields(m)
        func == trace_decode(x.input, x.output, x.sig)
    IN  IF func.ok
        THEN [null |-> FALSE,
              pieces |-> SplitText(func.parts[1] \o <<";">> \o func.parts[2] \o <<";">>
                                   \o func.parts[3] \o <<";">> \o func.parts[4] \o <<";">>
                                   \o func.parts[5] \o <<";">> \o func.parts[6])]
        ELSE [null |-> TRUE, pieces |-> <<>>]

\* polars_decode_trace on a chunk.
polars_decode_trace(chunk, hex) ==
    [i \in 1..Len(chunk) |->
        LET m == chunk[i]
            decoded_trace == decode_trace_udf(m)
        IN  [trace_index |-> m.trace_index,
             selector |-> OutBinary(m.selector, hex), action_to |-> OutBinary(m.action_to, hex),
             input |-> OutBinary(m.input, hex), output |-> OutBinary(m.output, hex),
             full_signature |-> m.full_signature, name |-> m.name, id |-> m.id,
             input_values |-> SplitGet(decoded_trace, 0),
             input_keys |-> SplitGet(decoded_trace, 1),
             input_json |-> SplitGet(decoded_trace, 2),
             output_values |-> SplitGet(decoded_trace, 3),
             output_keys |-> SplitGet(decoded_trace, 4),
             output_json |-> SplitGet(decoded_trace, 5)]]

\* decode_traces for one order of completion of the chunk tasks.
decode_traces(rows, size, hex, order) ==
    UnionDataframes([k \in 1..NumChunks(Len(rows), size) |->
        polars_decode_trace(ChunkOf(rows, size, order[k]), hex)])

InitTrace ==
    /\ IdleCatalog
    /\ IdleOrch
    /\ IdleMatch
    /\ IdleConfig
    /\ IdleHex
    /\ IdleIo
    /\ traceCfg \in [trace_algorithm : {"four_bytes_address", "four_bytes"},
                     output_hex_string_encoding : BOOLEAN,
                     decoded_chunk_size : 1..MaxTraces]
    /\ traceDf \in {TraceTable(rows) : rows \in SeqsUpTo(TraceRows, MaxTraces)}
    /\ traceAbi \in {SubSeqOf(FnAbiRows, S) : S \in SUBSET (1..Len(FnAbiRows))}
    /\ traceMatched = <<>>
    /\ traceOutput = [ok |-> FALSE, rows |-> <<>>]
    /\ tpc = "start"

\* decode_trace_df_with_abi_df: both algorithms call the matcher by selector
\* and address, then decode_traces runs on the matched table.
DecodeTraceDfWithAbiDf ==
    /\ tpc = "start"
    /\ traceMatched' = (CASE traceCfg.trace_algorithm = "four_bytes_address" ->
                                 match_traces_by_4bytes_address(traceDf, traceAbi)
                          [] traceCfg.trace_algorithm = "four_bytes" ->
                                 match_traces_by_4bytes_address(traceDf, traceAbi))
    /\ \E order \in Permutations(1..NumChunks(Len(traceMatched'), traceCfg.decoded_chunk_size)) :
          traceOutput' = decode_traces(traceMatched', traceCfg.decoded_chunk_size,
                                       traceCfg.output_hex_string_encoding, order)
    /\ tpc' = "returned"
    /\ UNCHANGED <<traceCfg, traceDf, traceAbi, catVars, orchVars, matchVars, cfgVars, hexVars, ioVars>>

NextTrace == DecodeTraceDfWithAbiDf

SpecTrace == InitTrace /\ [][NextTrace]_vars

\* The rows the returned table has for raw trace r.
TraceOutputRows(r) ==
    {j \in 1..Len(traceOutput.rows) : traceOutput.rows[j].trace_index = r.trace_index}

\* C16: with the trace algorithm four_bytes (hash), a trace row without catalog
\* entry of its (selector, action_to) whose selector is the hash of a catalog
\* entry gets a non-null full_signature.
C16_HashOnlyTraceGetsSignature ==
    (tpc = "returned" /\ traceOutput.ok /\ traceCfg.trace_algorithm = "four_bytes") =>
        \A i \in 1..Len(traceDf) :
            LET r == traceDf[i] IN
            (/\ \A k \in 1..Len(traceAbi) : ~On4BytesAddress(r, traceAbi[k])
             /\ \E k \in 1..Len(traceAbi) : On4Bytes(r, traceAbi[k])) =>
                \A j \in TraceOutputRows(r) : traceOutput.rows[j].full_signature # Null

\* C16 for the two-pass matcher itself: match_traces_by_4bytes gives such a row
\* a most frequent signature of its selector.
C16_TwoPassMatcherAlone ==
    \A f \in FnMostFrequentChoices(traceAbi) :
        LET m == match_traces_by_4bytes(traceDf, traceAbi, f) IN
        \A i \in 1..Len(traceDf) :
            LET r == traceDf[i] IN
            (/\ \A k \in 1..Len(traceAbi) : ~On4BytesAddress(r, traceAbi[k])
             /\ \E k \in 1..Len(traceAbi) : On4Bytes(r, traceAbi[k])) =>
                \A j \in 1..Len(m) :
                    m[j].trace_index = r.trace_index =>
                        \E k \in 1..Len(traceAbi) :
                            /\ m[j].full_signature = traceAbi[k].full_signature
                            /\ m[j].selector = traceAbi[k].hash
                            /\ FnIsMostFrequent(traceAbi, f[traceAbi[k].hash])
                            /\ traceAbi[f[traceAbi[k].hash]].full_signature = m[j].full_signature

-----------------------------------------------------------------------------
(* The configuration: configger.rs, cli/src/main.rs                         *)

\* A missing path component: what split(".").nth(n) gives past the end.
None == "<none>"

\* config_path.split(".").nth(n) on a path given by its components.
Nth(path, n) == IF n + 1 <= Len(path) THEN path[n + 1] ELSE None

\* to_lowercase on the strings of the model.
ToLowercase(v) ==
    CASE v = "PARQUET" -> "parquet"
      [] v = "Hash" -> "hash"
      [] OTHER -> v

Str(v) == [kind |-> "String", v |-> v]
Num(n) == [kind |-> "Number", v |-> n]
Bool(b) == [kind |-> "Boolean", v |-> b]
List(l) == [kind |-> "List", v |-> l]

InvalidFieldOrValue(cfg) == [err |-> "InvalidFieldOrValue", config |-> cfg]

Set(cfg) == [err |-> "none", config |-> cfg]

\* validate_unique_key: every entry is one of the allowed keys.
validate_unique_key(keys) ==
    \A i \in 1..Len(keys) : keys[i] \in {"hash", "full_signature", "address"}

\* validate_output_file_format
validate_output_file_format(output_file_format) == output_file_format \in {"csv", "parquet"}

\* set_config under the write lock: the section, field, subfield and
\* schema_field are the first four components of the path, later components
\* are not looked at.  Returns the error, if any, and the configuration left.
\* (The sections glaciers, main and trace_decoder and the other fields of the
\* sections below have arms of the same shapes.)
set_config(cfg, config_path, value) ==
    LET section == Nth(config_path, 0)
        field == Nth(config_path, 1)
        subfield == Nth(config_path, 2)
        schema_field == Nth(config_path, 3)
    IN  CASE section = "abi_reader" ->
              (CASE field = "unique_key" /\ value.kind = "List" ->
                     LET v == [i \in 1..Len(value.v) |-> ToLowercase(value.v[i])]
                     IN  IF validate_unique_key(v)
                         THEN Set([cfg EXCEPT !.abi_reader.unique_key = v])
                         ELSE InvalidFieldOrValue(cfg)
                 [] field = "unique_key" /\ value.kind = "String" ->
                     LET v == <<ToLowercase(value.v)>>
                     IN  IF validate_unique_key(v)
                         THEN Set([cfg EXCEPT !.abi_reader.unique_key = v])
                         ELSE InvalidFieldOrValue(cfg)
                 [] OTHER -> InvalidFieldOrValue(cfg))
          [] section = "decoder" ->
              (CASE field = "algorithm" /\ value.kind = "String" ->
                     (CASE ToLowercase(value.v) = "hash_address" ->
                             Set([cfg EXCEPT !.decoder.algorithm = "HashAddress"])
                        [] ToLowercase(value.v) = "hash" ->
                             Set([cfg EXCEPT !.decoder.algorithm = "Hash"])
                        [] OTHER -> InvalidFieldOrValue(cfg))
                 [] field = "output_hex_string_encoding" /\ value.kind = "Boolean" ->
                     Set([cfg EXCEPT !.decoder.output_hex_string_encoding = value.v])
                 [] field = "output_hex_string_encoding" /\ value.kind = "Number" ->
                     (CASE value.v = 1 ->
                             Set([cfg EXCEPT !.decoder.output_hex_string_encoding = TRUE])
                        [] value.v = 0 ->
                             Set([cfg EXCEPT !.decoder.output_hex_string_encoding = FALSE])
                        [] OTHER -> InvalidFieldOrValue(cfg))
                 [] field = "output_file_format" /\ value.kind = "String" ->
                     LET v == ToLowercase(value.v)
                     IN  IF validate_output_file_format(v)
                         THEN Set([cfg EXCEPT !.decoder.output_file_format = v])
                         ELSE InvalidFieldOrValue(cfg)
                 [] field = "max_concurrent_files_decoding" /\ value.kind = "Number" ->
                     Set([cfg EXCEPT !.decoder.max_concurrent_files_decoding = value.v])
                 [] field = "max_chunk_threads_per_file" /\ value.kind = "Number" ->
                     Set([cfg EXCEPT !.decoder.max_chunk_threads_per_file = value.v])
                 [] field = "decoded_chunk_size" /\ value.kind = "Number" ->
                     Set([cfg EXCEPT !.decoder.decoded_chunk_size = value.v])
                 [] OTHER -> InvalidFieldOrValue(cfg))
          [] section = "log_decoder" ->
              (CASE field = "log_schema" /\ subfield = "log_alias" /\ value.kind = "String" ->
                     (CASE schema_field = "topic0" ->
                             Set([cfg EXCEPT !.log_decoder.log_alias_topic0 = value.v])
                        [] OTHER -> InvalidFieldOrValue(cfg))
                 [] OTHER -> InvalidFieldOrValue(cfg))
          [] OTHER -> InvalidFieldOrValue(cfg)

\* The paths of the model, as the components split(".") yields: the keys,
\* keys followed by one more component, and paths that name no key.
ConfigPaths ==
    {<<"abi_reader", "unique_key">>,
     <<"decoder", "algorithm">>,
     <<"decoder", "output_hex_string_encoding">>,
     <<"decoder", "output_file_format">>,
     <<"decoder", "max_concurrent_files_decoding">>,
     <<"decoder", "max_chunk_threads_per_file">>,
     <<"decoder", "decoded_chunk_size">>,
     <<"log_decoder", "log_schema", "log_alias", "topic0">>,
     <<"decoder", "algorithm", "extra">>,
     <<"log_decoder", "log_schema", "log_alias", "topic0", "extra">>,
     <<"decoder", "bogus">>,
     <<"bogus", "algorithm">>}

\* The values of the model, of the four kinds of ConfigValue.
ConfigValues ==
    {Str("hash_address"), Str("PARQUET"), Str("xml"), Num(0), Num(1), Num(7), Bool(TRUE),
     List(<<"hash", "address">>)}

\* A library user calls set_config, before it calls set_config_toml.
SetConfig(config_path, value) ==
    /\ tomlpc = "idle"
    /\ cpc = "done"
    /\ setCalls < MaxSets
    /\ LET r == set_config(GLACIERS_CONFIG, config_path, value)
       IN  /\ GLACIERS_CONFIG' = r.config
           /\ lastCall' = [path |-> config_path, value |-> value,
                           before |-> GLACIERS_CONFIG, after |-> r.config, err |-> r.err]
    /\ setCalls' = setCalls + 1
    /\ UNCHANGED <<snapshot, tomlDoc, tomlPairs, tomlBefore, tomlRet, tomlpc, cli, cliRet, cpc,
                   catVars, orchVars, matchVars, traceVars, hexVars, ioVars>>

\* get_config on a reader thread: a clone taken under the read lock.
GetConfig ==
    /\ cpc = "done"
    /\ snapshot' = [config |-> GLACIERS_CONFIG, during |-> tomlpc = "running"]
    /\ UNCHANGED <<GLACIERS_CONFIG, lastCall, setCalls, tomlDoc, tomlPairs, tomlBefore, tomlRet,
                   tomlpc, cli, cliRet, cpc, catVars, orchVars, matchVars, traceVars, hexVars, ioVars>>

\* The leaves a TOML document of the model can hold, by dotted key: strings,
\* integers, booleans, arrays of strings, and a float.
TomlLeaves ==
    {[path |-> <<"decoder", "output_file_format">>, value |-> Str("csv")],
     [path |-> <<"decoder", "algorithm">>, value |-> Str("hash_address")],
     [path |-> <<"decoder", "algorithm">>, value |-> Str("xml")],
     [path |-> <<"decoder", "decoded_chunk_size">>, value |-> Num(7)],
     [path |-> <<"decoder", "max_chunk_threads_per_file">>, value |-> Num(0)],
     [path |-> <<"abi_reader", "unique_key">>, value |-> List(<<"hash", "address">>)],
     [path |-> <<"decoder", "bogus">>, value |-> [kind |-> "Float", v |-> 1]]}

\* The documents: tables of up to MaxLeaves leaves, a key at most once, in the
\* order the table iterates.
TomlDocs ==
    {d \in SeqsUpTo(TomlLeaves, MaxLeaves) :
        \A i, j \in 1..Len(d) : i # j => d[i].path # d[j].path}

\* process_table: the (key, value) pairs of the leaves, or UnsupportedValueType
\* when a leaf is neither a string, an integer, an array of strings nor a
\* boolean.
process_table(doc) ==
    IF \E i \in 1..Len(doc) : doc[i].value.kind \notin {"String", "Number", "List", "Boolean"}
    THEN [err |-> "UnsupportedValueType", config_pairs |-> <<>>]
    ELSE [err |-> "none", config_pairs |-> doc]

\* The loop of set_config_toml, and of async_main over the -c entries:
\* set_config on each pair in turn, the first error ends it (?).
RECURSIVE SetPairs(_, _)
SetPairs(cfg, pairs) ==
    IF pairs = <<>> THEN [err |-> "none", config |-> cfg]
    ELSE LET r == set_config(cfg, Head(pairs).path, Head(pairs).value)
         IN  IF r.err # "none" THEN r ELSE SetPairs(r.config, Tail(pairs))

\* set_config_toml as one call.
set_config_toml(cfg, doc) ==
    LET t == process_table(doc)
    IN  IF t.err # "none" THEN [err |-> t.err, config |-> cfg]
        ELSE SetPairs(cfg, t.config_pairs)

\* set_config_toml up to the loop: the file is read and parsed and
\* process_table has run; the configuration lock has not been taken yet.
SetConfigTomlStart(doc) ==
    /\ tomlpc = "idle"
    /\ cpc = "done"
    /\ tomlDoc' = doc
    /\ tomlBefore' = GLACIERS_CONFIG
    /\ LET t == process_table(doc)
       IN  IF t.err # "none"
           THEN /\ tomlRet' = t.err /\ tomlpc' = "returned" /\ tomlPairs' = <<>>
           ELSE /\ tomlRet' = "none" /\ tomlpc' = "running" /\ tomlPairs' = t.config_pairs
    /\ UNCHANGED <<GLACIERS_CONFIG, lastCall, setCalls, snapshot, cli, cliRet, cpc,
                   catVars, orchVars, matchVars, traceVars, hexVars, ioVars>>

\* One turn of the loop of set_config_toml: set_config on the next pair, which
\* takes and releases the write lock; an error ends the call (?).
SetConfigTomlStep ==
    /\ tomlpc = "running"
    /\ IF tomlPairs = <<>>
       THEN /\ tomlRet' = "ok" /\ tomlpc' = "returned"
            /\ UNCHANGED <<GLACIERS_CONFIG, tomlPairs>>
       ELSE LET r == set_config(GLACIERS_CONFIG, Head(tomlPairs).path, Head(tomlPairs).value)
            IN  /\ GLACIERS_CONFIG' = r.config
                /\ IF r.err # "none"
                   THEN tomlRet' = r.err /\ tomlpc' = "returned" /\ tomlPairs' = <<>>
                   ELSE tomlRet' = "none" /\ tomlpc' = "running" /\ tomlPairs' = Tail(tomlPairs)
    /\ UNCHANGED <<lastCall, setCalls, snapshot, tomlDoc, tomlBefore, cli, cliRet, cpc,
                   catVars, orchVars, matchVars, traceVars, hexVars, ioVars>>

InitConfig ==
    /\ IdleCatalog
    /\ IdleOrch
    /\ IdleMatch
    /\ IdleTrace
    /\ IdleConfig
    /\ IdleHex
    /\ IdleIo

NextConfig ==
    \/ \E config_path \in ConfigPaths, value \in ConfigValues : SetConfig(config_path, value)
    \/ GetConfig
    \/ \E doc \in TomlDocs : SetConfigTomlStart(doc)
    \/ SetConfigTomlStep

SpecConfig == InitConfig /\ [][NextConfig]_vars

\* The paths that are exactly a key of the configuration.
RecognizedKeys ==
    {<<"abi_reader", "unique_key">>,
     <<"decoder", "algorithm">>,
     <<"decoder", "output_hex_string_encoding">>,
     <<"decoder", "output_file_format">>,
     <<"decoder", "max_concurrent_files_decoding">>,
     <<"decoder", "max_chunk_threads_per_file">>,
     <<"decoder", "decoded_chunk_size">>,
     <<"log_decoder", "log_schema", "log_alias", "topic0">>}

\* The kinds of value a key takes.
KindsOf(key) ==
    CASE key = <<"abi_reader", "unique_key">> -> {"List", "String"}
      [] key = <<"decoder", "output_hex_string_encoding">> -> {"Boolean", "Number"}
      [] key = <<"decoder", "max_concurrent_files_decoding">> -> {"Number"}
      [] key = <<"decoder", "max_chunk_threads_per_file">> -> {"Number"}
      [] key = <<"decoder", "decoded_chunk_size">> -> {"Number"}
      [] OTHER -> {"String"}

\* C17: a set_config call whose path is not exactly a recognized key (a key
\* followed by more components included), or whose value is of the wrong kind
\* for the key, returns InvalidFieldOrValue and leaves the configuration as it
\* was.
C17_BadPathOrKindRejected ==
    setCalls > 0 =>
        ((\/ lastCall.path \notin RecognizedKeys
          \/ lastCall.value.kind \notin KindsOf(lastCall.path)) =>
            /\ lastCall.err = "InvalidFieldOrValue"
            /\ lastCall.after = lastCall.before)

\* C17 without the paths that continue a recognized key.
C17_UnlessKeyIsContinued ==
    (setCalls > 0
        /\ \A k \in RecognizedKeys :
              ~(Len(lastCall.path) > Len(k) /\ SubSeq(lastCall.path, 1, Len(k)) = k)) =>
        ((\/ lastCall.path \notin RecognizedKeys
          \/ lastCall.value.kind \notin KindsOf(lastCall.path)) =>
            /\ lastCall.err = "InvalidFieldOrValue"
            /\ lastCall.after = lastCall.before)

\* The configuration with every leaf of the document applied.
AllLeavesApplied(cfg, doc) ==
    \A i \in 1..Len(doc) : set_config(cfg, doc[i].path, doc[i].value) = Set(cfg)

\* C18: set_config_toml is atomic: when it has returned, every leaf of the
\* document is applied, or, after a failure, the configuration is the one from
\* before the call; and a get_config taken while it runs returns the
\* configuration from before the call or one with every leaf applied.
C18_SetFromTomlAtomic ==
    /\ (tomlpc = "returned" /\ tomlRet = "ok") => AllLeavesApplied(GLACIERS_CONFIG, tomlDoc)
    /\ (tomlpc = "returned" /\ tomlRet \notin {"ok", "none"}) => GLACIERS_CONFIG = tomlBefore
    /\ (tomlpc # "idle" /\ snapshot.during) =>
          \/ snapshot.config = tomlBefore
          \/ AllLeavesApplied(snapshot.config, tomlDoc)

\* C18 for the calls that return without error, readers left aside.
C18_SuccessAppliesEveryLeaf ==
    (tomlpc = "returned" /\ tomlRet = "ok") => AllLeavesApplied(GLACIERS_CONFIG, tomlDoc)

\* C24: after any sequence of set_config and set_config_toml calls the fields
\* decoder.max_concurrent_files_decoding, decoder.max_chunk_threads_per_file
\* and decoder.decoded_chunk_size are all at least 1.
C24_ConcurrencyFieldsPositive ==
    /\ GLACIERS_CONFIG.decoder.max_concurrent_files_decoding >= 1
    /\ GLACIERS_CONFIG.decoder.max_chunk_threads_per_file >= 1
    /\ GLACIERS_CONFIG.decoder.decoded_chunk_size >= 1

\* C24, what the code keeps: the three fields hold their default or the last
\* number given for them, whatever it is.
C24_FieldsHoldGivenNumbers ==
    \A field \in {"max_concurrent_files_decoding", "max_chunk_threads_per_file",
                  "decoded_chunk_size"} :
        GLACIERS_CONFIG.decoder[field] \in {DefaultConfig.decoder[field], 0, 1, 7}

-----------------------------------------------------------------------------
(* The command line: cli/src/main.rs                                        *)

\* parse_config_value on the VALUE strings of the model: true/false, then a
\* number, then a list when the text holds a comma, else a string.
parse_config_value(value) ==
    CASE value = "true" -> Bool(TRUE)
      [] value = "7" -> Num(7)
      [] value = "hash,address" -> List(<<"hash", "address">>)
      [] OTHER -> Str(value)

\* The -c KEY VALUE entries a run of the model can give.
CliEntries ==
    {[path |-> <<"decoder", "output_file_format">>, value |-> "PARQUET"],
     [path |-> <<"decoder", "output_file_format">>, value |-> "csv"],
     [path |-> <<"decoder", "algorithm">>, value |-> "hash_address"],
     [path |-> <<"decoder", "algorithm">>, value |-> "7"],
     [path |-> <<"decoder", "decoded_chunk_size">>, value |-> "7"],
     [path |-> <<"abi_reader", "unique_key">>, value |-> "hash,address"]}

\* cli.config.chunks(2), each VALUE parsed.
ParsedEntries(entries) ==
    [i \in 1..Len(entries) |->
        [path |-> entries[i].path, value |-> parse_config_value(entries[i].value)]]

\* async_main with the -c entries set before the TOML document.
async_main_tomlLast(cfg, args) ==
    LET c == SetPairs(cfg, ParsedEntries(args.config))
    IN  IF c.err # "none" THEN [status |-> "error", config |-> c.config]
        ELSE LET t == IF args.has_toml THEN set_config_toml(c.config, args.toml)
                      ELSE [err |-> "none", config |-> c.config]
             IN  IF t.err # "none" THEN [status |-> "error", config |-> t.config]
                 ELSE [status |-> "command", config |-> t.config]

\* async_main up to the subcommand: set_config_toml when -t is given, then
\* set_config for each -c entry in the order given; an error ends the run
\* before the subcommand.
async_main(cfg, args) ==
    LET t == IF args.has_toml THEN set_config_toml(cfg, args.toml)
             ELSE [err |-> "none", config |-> cfg]
    IN  IF t.err # "none" THEN [status |-> "error", config |-> t.config]
        ELSE LET c == SetPairs(t.config, ParsedEntries(args.config))
             IN  IF c.err # "none" THEN [status |-> "error", config |-> c.config]
                 ELSE [status |-> "command", config |-> c.config]

InitCli ==
    /\ IdleCatalog
    /\ IdleOrch
    /\ IdleMatch
    /\ IdleTrace
    /\ GLACIERS_CONFIG = DefaultConfig
    /\ lastCall = NoCall
    /\ setCalls = 0
    /\ snapshot = [config |-> DefaultConfig, during |-> FALSE]
    /\ tomlDoc = <<>> /\ tomlPairs = <<>> /\ tomlBefore = DefaultConfig
    /\ tomlRet = "none" /\ tomlpc = "idle"
    /\ cli \in [toml : TomlDocs, has_toml : BOOLEAN, config : SeqsUpTo(CliEntries, MaxArgs)]
    /\ cli.has_toml \/ cli.toml = <<>>
    /\ cliRet = "none"
    /\ cpc = "start"
    /\ IdleHex
    /\ IdleIo

\* One CLI run up to its subcommand.
AsyncMain ==
    /\ cpc = "start"
    /\ LET r == async_main(GLACIERS_CONFIG, cli)
       IN  /\ GLACIERS_CONFIG' = r.config
           /\ cliRet' = r.status
    /\ cpc' = "done"
    /\ UNCHANGED <<lastCall, setCalls, snapshot, tomlDoc, tomlPairs, tomlBefore, tomlRet, tomlpc,
                   cli, catVars, orchVars, matchVars, traceVars, hexVars, ioVars>>

NextCli == AsyncMain

SpecCli == InitCli /\ [][NextCli]_vars

\* C19: when the subcommand of a run executes, the configuration holds the
\* value of every -c entry that no later -c entry of the same key replaces,
\* whatever the TOML document set for that key, and the TOML value of the keys
\* no -c entry names.
C19_CliOverridesToml ==
    (cpc = "done" /\ cliRet = "command") =>
        LET entries == ParsedEntries(cli.config) IN
        /\ \A i \in 1..Len(entries) :
              (\A j \in (i + 1)..Len(entries) : entries[j].path # entries[i].path) =>
                  set_config(GLACIERS_CONFIG, entries[i].path, entries[i].value)
                      = Set(GLACIERS_CONFIG)
        /\ \A i \in 1..Len(cli.toml) :
              (\A j \in 1..Len(entries) : entries[j].path # cli.toml[i].path) =>
                  set_config(GLACIERS_CONFIG, cli.toml[i].path, cli.toml[i].value)
                      = Set(GLACIERS_CONFIG)

\* The run of the example: the document sets decoder.output_file_format to
\* csv, a -c entry sets it to PARQUET, and the subcommand runs with parquet.
C19_Witness ==
    /\ cpc = "done"
    /\ cliRet = "command"
    /\ cli.has_toml
    /\ \E i \in 1..Len(cli.toml) :
          /\ cli.toml[i].path = <<"decoder", "output_file_format">>
          /\ cli.toml[i].value = Str("csv")
    /\ \E i \in 1..Len(cli.config) :
          /\ cli.config[i].path = <<"decoder", "output_file_format">>
          /\ cli.config[i].value = "PARQUET"
    /\ GLACIERS_CONFIG.decoder.output_file_format = "parquet"

-----------------------------------------------------------------------------
(* Hex string columns: utils.rs                                             *)

\* A string is the sequence of its characters.  The characters of the model:
\* hex digits in both cases, and one that is no hex digit.
HexChars == {"1", "a", "A", "f", "g"}

\* The value of a hex digit, either case.
HexDigitValue(c) ==
    CASE c = "1" -> 1
      [] c \in {"a", "A"} -> 10
      [] c \in {"f", "F"} -> 15
      [] OTHER -> -1

\* The lower-case digit of a value: hex_encode writes lower-case.
HexDigit(n) ==
    CASE n = 1 -> "1"
      [] n = 10 -> "a"
      [] n = 15 -> "f"

\* The digit strings of up to MaxBytes bytes.
DigitStrings == UNION {[1..(2 * k) -> HexChars] : k \in 0..MaxBytes}

\* The null of a string column.
NullString == <<"null">>

\* The values of a hex string column: digits without prefix, with the prefix
\* 0x, with the prefix 0X, and null.
HexStrings ==
    DigitStrings \cup {<<"0", "x">> \o d : d \in DigitStrings}
                 \cup {<<"0", "X">> \o d : d \in DigitStrings}

\* str().strip_prefix(lit("0x")): the prefix is removed when the string starts
\* with exactly "0x".
strip_prefix(str) ==
    IF Len(str) >= 2 /\ str[1] = "0" /\ str[2] = "x" THEN SubSeq(str, 3, Len(str)) ELSE str

\* str().hex_decode(true): the bytes of the digit pairs; strict, so a
\* character that is no hex digit or an odd length is an error.
hex_decode(str) ==
    IF Len(str) % 2 # 0 \/ \E i \in 1..Len(str) : HexDigitValue(str[i]) < 0
    THEN [ok |-> FALSE, null |-> FALSE, bytes |-> <<>>]
    ELSE [ok |-> TRUE, null |-> FALSE,
          bytes |-> [i \in 1..(Len(str) \div 2) |->
                        16 * HexDigitValue(str[2 * i - 1]) + HexDigitValue(str[2 * i])]]

\* binary().hex_encode(): two lower-case digits per byte.
hex_encode(bytes) ==
    Flatten([i \in 1..Len(bytes) |-> <<HexDigit(bytes[i] \div 16), HexDigit(bytes[i] % 16)>>])

\* hex_string_columns_to_binary on one value of a HexString column; null stays
\* null.
hex_string_columns_to_binary(value) ==
    IF value = NullString THEN [ok |-> TRUE, null |-> TRUE, bytes |-> <<>>]
    ELSE hex_decode(strip_prefix(value))

\* binary_columns_to_hex_string on one binary value, by characters: hex_encode,
\* then concat_str of "0x" and the digits ignoring nulls.
BinaryToHexString(bin) ==
    <<"0", "x">> \o (IF bin.null THEN <<>> ELSE hex_encode(bin.bytes))

InitHex ==
    /\ IdleCatalog
    /\ IdleOrch
    /\ IdleMatch
    /\ IdleTrace
    /\ IdleConfig
    /\ IdleIo
    /\ hexValue \in HexStrings \cup {NullString}
    /\ binValue = [ok |-> TRUE, null |-> FALSE, bytes |-> <<>>]
    /\ hexOut = <<>>
    /\ hpc = "start"

\* hex_string_columns_to_binary: an error of hex_decode fails the call.
HexStringColumnsToBinary ==
    /\ hpc = "start"
    /\ binValue' = hex_string_columns_to_binary(hexValue)
    /\ hpc' = IF binValue'.ok THEN "binary" ELSE "failed"
    /\ UNCHANGED <<hexValue, hexOut, catVars, orchVars, matchVars, traceVars, cfgVars, ioVars>>

\* binary_columns_to_hex_string on the converted column.
BinaryColumnsToHexString ==
    /\ hpc = "binary"
    /\ hexOut' = BinaryToHexString(binValue)
    /\ hpc' = "hex"
    /\ UNCHANGED <<hexValue, binValue, catVars, orchVars, matchVars, traceVars, cfgVars, ioVars>>

NextHex ==
    \/ HexStringColumnsToBinary
    \/ BinaryColumnsToHexString

SpecHex == InitHex /\ [][NextHex]_vars

\* A valid hex value: hex digits, two per byte and at least one byte, after an
\* optional 0x or 0X.
ValidHex(value) ==
    /\ value # NullString
    /\ LET digits == IF Len(value) >= 2 /\ value[1] = "0" /\ value[2] \in {"x", "X"}
                     THEN SubSeq(value, 3, Len(value)) ELSE value
       IN  /\ Len(digits) >= 2
           /\ Len(digits) % 2 = 0
           /\ \A i \in 1..Len(digits) : HexDigitValue(digits[i]) >= 0

\* C20: on a valid hex value, whatever its prefix and the case of its digits,
\* hex_string_columns_to_binary succeeds and binary_columns_to_hex_string gives
\* the same string back.
C20_HexRoundTripIdentity ==
    /\ hpc = "failed" => ~ValidHex(hexValue)
    /\ (hpc = "hex" /\ ValidHex(hexValue)) => hexOut = hexValue

\* C20 for the valid values that have the prefix 0x and lower-case digits.
C20_LowerCaseWithPrefix ==
    (/\ ValidHex(hexValue)
     /\ Len(hexValue) >= 2 /\ hexValue[1] = "0" /\ hexValue[2] = "x"
     /\ \A i \in 3..Len(hexValue) : hexValue[i] \in {"1", "a", "f"}) =>
        /\ hpc # "failed"
        /\ hpc = "hex" => hexOut = hexValue

\* On every valid value the conversion succeeds and gives 0x and lower-case
\* digits of the same bytes, unless the value has the prefix 0X, which fails.
C20_CanonicalForm ==
    (ValidHex(hexValue) /\ hpc \in {"hex", "failed"}) =>
        IF Len(hexValue) >= 2 /\ hexValue[2] = "X"
        THEN hpc = "failed"
        ELSE /\ hpc = "hex"
             /\ hex_string_columns_to_binary(hexOut) = hex_string_columns_to_binary(hexValue)
             /\ hexOut[1] = "0" /\ hexOut[2] = "x"

-----------------------------------------------------------------------------
(* Hex string columns of a table: utils.rs, configger.rs                    *)

\* The fields of LogDatatypeConfig and of TraceDatatypeConfig.
LogFields == {"topic0", "topic1", "topic2", "topic3", "data", "address"}

TraceFields == {"selector", "action_input", "result_output", "action_to"}

SchemaFields(decoder_type) == IF decoder_type = "Log" THEN LogFields ELSE TraceFields

\* log_alias and trace_alias of GLACIERS_CONFIG: the default column names.
log_alias ==
    [topic0 |-> "topic0", topic1 |-> "topic1", topic2 |-> "topic2", topic3 |-> "topic3",
     data |-> "data", address |-> "address"]

trace_alias ==
    [selector |-> "selector", action_input |-> "action_input",
     result_output |-> "result_output", action_to |-> "action_to"]

SchemaAlias(decoder_type) == IF decoder_type = "Log" THEN log_alias ELSE trace_alias

\* LogAliasConfig::as_array: the address alias is left out.
LogAliasConfig_as_array(alias) ==
    <<alias.topic0, alias.topic1, alias.topic2, alias.topic3, alias.data>>

\* LogDatatypeConfig::as_array: all six fields.
LogDatatypeConfig_as_array(datatype) ==
    <<datatype.topic0, datatype.topic1, datatype.topic2, datatype.topic3, datatype.data,
      datatype.address>>

\* TraceAliasConfig::as_array: the two columns used by the trace kernel.
TraceAliasConfig_as_array(alias) == <<alias.action_input, alias.result_output>>

\* TraceDatatypeConfig::as_array: all four fields.
TraceDatatypeConfig_as_array(datatype) ==
    <<datatype.selector, datatype.action_input, datatype.result_output, datatype.action_to>>

\* The cells of the one-row tables of the model: a hex string, the bytes it
\* stands for, and an integer of a column that is no schema column.
HexCell == [dtype |-> "String", v |-> <<"0", "x", "1", "1">>]

BinaryCell == [dtype |-> "Binary", v |-> <<17>>]

OtherCell == [dtype |-> "Int64", v |-> <<7>>]

\* A raw table that follows the configured datatypes: the column of a field is
\* a string column when the field is configured as HexString and a binary
\* column otherwise; block_number is a column outside the schema.
SchemaTable(decoder_type, datatype) ==
    [c \in {SchemaAlias(decoder_type)[f] : f \in SchemaFields(decoder_type)}
            \cup {"block_number"} |->
        IF c = "block_number" THEN OtherCell
        ELSE LET f == CHOOSE g \in SchemaFields(decoder_type) :
                          SchemaAlias(decoder_type)[g] = c
             IN  IF datatype[f] = "HexString" THEN HexCell ELSE BinaryCell]

\* hex_string_columns_to_binary on a table: the datatype array is zipped with
\* the alias array (zip stops at the shorter one), the pairs whose datatype is
\* HexString are kept, and the column named by the alias of each kept pair is
\* stripped and decoded.  The str namespace on a column that is no string
\* column, or a value hex_decode rejects, fails the call.
hex_string_columns_to_binary_df(df, decoder_type, datatype, alias) ==
    LET input_schema_datatype ==
            IF decoder_type = "Log" THEN LogDatatypeConfig_as_array(datatype)
            ELSE TraceDatatypeConfig_as_array(datatype)
        input_schema_alias ==
            IF decoder_type = "Log" THEN LogAliasConfig_as_array(alias)
            ELSE TraceAliasConfig_as_array(alias)
        n == Min(Len(input_schema_datatype), Len(input_schema_alias))
        bin_exprs == {input_schema_alias[i] :
                         i \in {j \in 1..n : input_schema_datatype[j] = "HexString"}}
    IN  IF \E c \in bin_exprs :
              \/ c \notin DOMAIN df
              \/ df[c].dtype # "String"
              \/ ~hex_string_columns_to_binary(df[c].v).ok
        THEN [ok |-> FALSE, df |-> <<>>]
        ELSE [ok |-> TRUE,
              df |-> [c \in DOMAIN df |->
                         IF c \in bin_exprs
                         THEN [dtype |-> "Binary",
                               v |-> hex_string_columns_to_binary(df[c].v).bytes]
                         ELSE df[c]]]

InitSchema ==
    /\ IdleCatalog
    /\ IdleOrch
    /\ IdleMatch
    /\ IdleTrace
    /\ IdleConfig
    /\ IdleHex
    /\ IdleFile
    /\ IdleReads
    /\ IdleKernel
    /\ schKind \in {"Log", "Trace"}
    /\ schDatatype \in [SchemaFields(schKind) -> {"Binary", "HexString"}]
    /\ schDf = SchemaTable(schKind, schDatatype)
    /\ schOut = [ok |-> TRUE, df |-> <<>>]
    /\ schpc = "start"

\* decode_log_file / decode_trace_file convert the raw table they have read.
HexStringColumnsToBinaryDf ==
    /\ schpc = "start"
    /\ schOut' = hex_string_columns_to_binary_df(schDf, schKind, schDatatype,
                                                 SchemaAlias(schKind))
    /\ schpc' = "returned"
    /\ UNCHANGED <<schKind, schDatatype, schDf, fileVars, readVars, kernelVars, catVars,
                   orchVars, matchVars, traceVars, cfgVars, hexVars>>

NextSchema == HexStringColumnsToBinaryDf

SpecSchema == InitSchema /\ [][NextSchema]_vars

\* The column of field f.
FieldColumn(f) == SchemaAlias(schKind)[f]

\* The column of a field came out as the bytes of its hex string.
Converted(f) ==
    /\ schOut.df[FieldColumn(f)].dtype = "Binary"
    /\ schOut.df[FieldColumn(f)].v = hex_string_columns_to_binary(schDf[FieldColumn(f)].v).bytes

\* A column came out as it went in.
Untouched(c) ==
    /\ schOut.df[c].dtype = schDf[c].dtype
    /\ schOut.df[c].v = schDf[c].v

\* C21: hex_string_columns_to_binary converts exactly the columns of the
\* fields whose configured datatype is HexString, each datatype paired with
\* the alias of the same field (logs: topic0..topic3, data, address; traces:
\* selector, action_input, result_output, action_to), and leaves every other
\* column untouched.
C21_ConvertsExactlyHexStringColumns ==
    schpc = "returned" =>
        /\ schOut.ok
        /\ \A f \in SchemaFields(schKind) :
              IF schDatatype[f] = "HexString" THEN Converted(f)
              ELSE Untouched(FieldColumn(f))
        /\ Untouched("block_number")

\* C21, what the code does for logs: the five columns topic0..topic3 and data
\* are converted according to their own datatype; address and the columns
\* outside the schema are never converted.
C21_LogsWithoutAddress ==
    (schpc = "returned" /\ schKind = "Log") =>
        /\ schOut.ok
        /\ \A f \in LogFields \ {"address"} :
              IF schDatatype[f] = "HexString" THEN Converted(f)
              ELSE Untouched(FieldColumn(f))
        /\ Untouched("address")
        /\ Untouched("block_number")

-----------------------------------------------------------------------------
(* Table files: utils.rs                                                    *)

\* A path is the directory it lies in and its file name, the file name as the
\* sequence of its pieces between dots.  "data" is an existing directory,
\* "nodir" does not exist.
FileNames ==
    {<<"out", "parquet">>, <<"out", "csv">>, <<"out", "txt">>, <<"out">>,
     <<"out", "PARQUET">>}

Paths == [dir : {"data", "nodir"}, name : FileNames]

NoExtension == "<none>"

\* Path::extension: the piece after the last dot of the file name, if there is
\* a dot.
extension(path) ==
    IF Len(path.name) > 1 THEN path.name[Len(path.name)] ELSE NoExtension

\* The tables written and the content of the files of the model: nothing, an
\* empty file, a parquet or a csv encoding of a table, and bytes that are
\* neither.
Tables == {"t1", "t2"}

Absent == [exists |-> FALSE, content |-> <<>>]

EmptyFile == [exists |-> TRUE, content |-> <<>>]

Encoded(format, df) == [exists |-> TRUE, content |-> <<format, df>>]

FileStates ==
    {Absent, EmptyFile} \cup {Encoded(fmt, df) : fmt \in {"parquet", "csv"}, df \in Tables}

\* File::create: fails in a directory that does not exist; otherwise the file
\* exists and is empty afterwards (created, or truncated).
FileCreate(fs, path) ==
    IF path.dir = "nodir" THEN [ok |-> FALSE, fs |-> fs]
    ELSE [ok |-> TRUE, fs |-> [fs EXCEPT ![path] = EmptyFile]]

\* write_df_file: the file is created first, then the extension chooses the
\* writer; an extension that is neither parquet nor csv is the error.
write_df_file(fs, df, path) ==
    LET file == FileCreate(fs, path)
    IN  IF ~file.ok THEN [ok |-> FALSE, fs |-> fs]
        ELSE IF extension(path) = "parquet"
             THEN [ok |-> TRUE, fs |-> [file.fs EXCEPT ![path] = Encoded("parquet", df)]]
        ELSE IF extension(path) = "csv"
             THEN [ok |-> TRUE, fs |-> [file.fs EXCEPT ![path] = Encoded("csv", df)]]
        ELSE [ok |-> FALSE, fs |-> file.fs]

\* The reader of a format on the content of a file.
ReaderFinish(format, file) ==
    IF file.content # <<>> /\ file.content[1] = format
    THEN [ok |-> TRUE, df |-> file.content[2]]
    ELSE [ok |-> FALSE, df |-> ""]

\* read_df_file: the extension chooses the reader, which opens the file; an
\* extension that is neither parquet nor csv is the error.
read_df_file(fs, path) ==
    IF extension(path) \in {"parquet", "csv"}
    THEN IF ~fs[path].exists THEN [ok |-> FALSE, df |-> ""]
         ELSE ReaderFinish(extension(path), fs[path])
    ELSE [ok |-> FALSE, df |-> ""]

InitFile ==
    /\ IdleCatalog
    /\ IdleOrch
    /\ IdleMatch
    /\ IdleTrace
    /\ IdleConfig
    /\ IdleHex
    /\ IdleSchema
    /\ IdleReads
    /\ IdleKernel
    /\ \E old \in FileStates, p \in {q \in Paths : q.dir = "data"} :
          fsys = [q \in Paths |-> IF q = p THEN old ELSE Absent]
    /\ lastIo = [op |-> "none", path |-> <<>>, before |-> <<>>, after |-> <<>>,
                 ret |-> [ok |-> TRUE, df |-> ""]]
    /\ ioCalls = 0

WriteDfFile(df, path) ==
    /\ ioCalls < MaxIo
    /\ LET r == write_df_file(fsys, df, path)
       IN  /\ fsys' = r.fs
           /\ lastIo' = [op |-> "write", path |-> path, before |-> fsys, after |-> r.fs,
                         ret |-> [ok |-> r.ok, df |-> ""]]
    /\ ioCalls' = ioCalls + 1
    /\ UNCHANGED <<schemaVars, readVars, kernelVars, catVars, orchVars, matchVars, traceVars,
                   cfgVars, hexVars>>

ReadDfFile(path) ==
    /\ ioCalls < MaxIo
    /\ lastIo' = [op |-> "read", path |-> path, before |-> fsys, after |-> fsys,
                  ret |-> read_df_file(fsys, path)]
    /\ ioCalls' = ioCalls + 1
    /\ UNCHANGED <<fsys, schemaVars, readVars, kernelVars, catVars, orchVars, matchVars,
                   traceVars, cfgVars, hexVars>>

NextFile ==
    \/ \E df \in Tables, path \in Paths : WriteDfFile(df, path)
    \/ \E path \in Paths : ReadDfFile(path)

SpecFile == InitFile /\ [][NextFile]_vars

\* The last call was made on a path whose extension is absent or is neither
\* parquet nor csv.
BadExtensionCall ==
    /\ lastIo.op \in {"read", "write"}
    /\ extension(lastIo.path) \notin {"parquet", "csv"}

\* C22: write_df_file (and read_df_file) on a path whose extension is absent or
\* is neither parquet nor csv fails and leaves the file system unchanged: no
\* file is created at the path and an existing file there is not truncated.
C22_BadExtensionFailsWithoutEffect ==
    BadExtensionCall => (~lastIo.ret.ok /\ lastIo.after = lastIo.before)

\* C22, the part that holds: both calls fail on such a path, read_df_file
\* changes nothing, and write_df_file changes at most the file at the path,
\* which it leaves empty.
C22_BadExtensionFails ==
    BadExtensionCall =>
        /\ ~lastIo.ret.ok
        /\ lastIo.op = "read" => lastIo.after = lastIo.before
        /\ \A q \in Paths :
              \/ lastIo.after[q] = lastIo.before[q]
              \/ (q = lastIo.path /\ lastIo.op = "write" /\ lastIo.after[q] = EmptyFile)

-----------------------------------------------------------------------------
(* Termination of decode_logs: decoder.rs                                   *)

\* One file decoded with chunks of one row: matched tables of no row, of a few
\* rows and of more rows than the channel holds messages, with a kernel that
\* succeeds on every chunk; and tables of a few rows whose chunks the kernel
\* rejects.  The long table is decoded with one chunk permit.
InitChunksLive ==
    /\ IdleCatalog
    /\ IdleMatch
    /\ IdleTrace
    /\ IdleConfig
    /\ IdleHex
    /\ IdleIo
    /\ InitOrch(1, [kind : {"ok"}, height : {0, 1, 2, MaxSlices}]
                       \cup [kind : {"bad_schema"}, height : {1, 2}], {1}, 1..MaxPermits)
    /\ fheight[1] = MaxSlices => config.max_chunk_threads_per_file = 1

\* The chunk tasks of one decode_logs call run the same code and differ in the
\* slice they carry only, so for the question whether the call ends it is
\* enough to let them ask for their permit in spawn order; the tokio semaphore
\* hands out permits in the order they were asked for.
ChunkAcquireInOrder(f, c) ==
    /\ \A b \in 1..(c - 1) : tasks[f][b].pc # "acquire"
    /\ ChunkAcquire(f, c)

NextChunksLive ==
    \/ \E f \in Files : FileStart(f)
    \/ \E f \in Files : SpawnChunk(f)
    \/ \E f \in Files : SpawnDone(f)
    \/ \E f \in Files : \E c \in 1..Len(tasks[f]) : ChunkAcquireInOrder(f, c)
    \/ \E f \in Files : \E c \in 1..Len(tasks[f]) : ChunkKernel(f, c)
    \/ \E f \in Files : \E c \in 1..Len(tasks[f]) : ChunkLock(f, c)
    \/ \E f \in Files : \E c \in 1..Len(tasks[f]) : ChunkSend(f, c)
    \/ \E f \in Files : Recv(f)
    \/ \E f \in Files : RecvClosed(f)
    \/ FolderJoin

\* The runtime keeps polling the tasks that can make a step: the file task, the
\* chunk tasks and the caller of decode_log_folder.
SpecChunksLive == InitChunksLive /\ [][NextChunksLive]_vars /\ WF_vars(NextChunksLive)

\* decode_logs of the file returned a table built from one decoded chunk per
\* slice.
ReturnedOneChunkPerSlice ==
    /\ fpc[1] = "done"
    /\ fres[1] = "ok"
    /\ Len(collected[1]) = fheight[1]
    /\ \A i \in 1..fheight[1] : \E c \in 1..Len(collected[1]) : collected[1][c] = <<DecodedRow(i)>>
    /\ Len(fresult[1]) = fheight[1]

\* C23: with at least one chunk permit and a chunk size of at least one, when
\* every chunk kernel succeeds decode_logs eventually returns a table built from
\* exactly one decoded chunk per slice, for any number of slices: more than the
\* channel capacity, more than the chunk permits, and none.
C23_DecodeChunksReturnsTable ==
    (fkind[1] = "ok") ~> ReturnedOneChunkPerSlice

\* C23 for a table with rows: decode_logs eventually returns the table, every
\* interleaving of the chunk tasks and the collector ends.
C23_NonEmptyTableReturned ==
    (fkind[1] = "ok" /\ fheight[1] > 0) ~> ReturnedOneChunkPerSlice

\* C23 for a table without rows: no chunk task is spawned and decode_logs
\* returns the error of the empty union.
C23_EmptyTableFails ==
    (fkind[1] = "ok" /\ fheight[1] = 0 /\ fpc[1] = "done") => (fres[1] = "err" /\ tasks[1] = <<>>)

\* More messages than chunk permits wait in the channel, which is full, while a
\* chunk task is suspended on its send.
C23_ChannelFull ==
    /\ Len(chan[1]) = ChannelCapacity
    /\ \E c \in 1..Len(tasks[1]) : tasks[1][c].pc = "send"
    /\ Len(tasks[1]) > ChannelCapacity

-----------------------------------------------------------------------------
(* Claims about cancellation and the collector lock: decoder.rs             *)

\* A step in which a file task that waited for its file permit starts
\* decode_log_file.
FileTaskStarts ==
    \E f \in DOMAIN fpc : fpc[f] = "wait_permit" /\ fpc'[f] # "wait_permit"

\* A step in which a chunk task of a decode_logs call that has returned a
\* failure gets its permit and goes on to the row kernel.
ChunkTaskStartsAfterFailure ==
    \E f \in DOMAIN fpc :
        /\ fpc[f] = "done" /\ fres[f] = "err"
        /\ \E c \in 1..Len(tasks[f]) : tasks[f][c].pc = "acquire" /\ tasks'[f][c].pc = "kernel"

\* C25: once decode_log_folder has returned a failure the remaining work is
\* cancelled: no file task that still waits for its file permit starts
\* decode_log_file, and no chunk task that still waits for its chunk permit
\* when its decode_logs returned a failure runs the row kernel.
C25_CancelOnReturn ==
    [][/\ (folder.pc = "returned" /\ folder.res # "ok") => ~FileTaskStarts
       /\ ~ChunkTaskStartsAfterFailure]_vars

\* C25, what the code keeps: after decode_log_folder has returned, its result
\* stays what it was, and a decode_logs call that has returned a failure
\* writes no output file, whatever the tasks left behind do.
C25_ResultsStayAfterReturn ==
    [][/\ folder.pc = "returned" => folder' = folder
       /\ \A f \in DOMAIN fpc :
             (fpc[f] = "done" /\ fres[f] = "err") =>
                 (fres'[f] = "err" /\ fwritten'[f] = fwritten[f] /\ ~fwritten[f])]_vars

\* Chunk task c of file f is parked at an await: it waits for a chunk permit,
\* for the collector lock, or for room in the full channel.
Suspended(f, c) ==
    \/ tasks[f][c].pc = "acquire" /\ chunkSem[f] = 0
    \/ tasks[f][c].pc = "lock" /\ LockHeld(f)
    \/ /\ tasks[f][c].pc \in {"send", "senderr"}
       /\ rxOpen[f]
       /\ Len(chan[f]) = ChannelCapacity

\* Chunk task c of file f holds the collector lock: it has pushed its chunk
\* and its guard dfs is still in scope.
HoldsCollectorLock(f, c) == tasks[f][c].pc = "send"

\* C26: the collector mutex is held only to append a chunk: no chunk task holds
\* the collector lock while it is suspended on the channel send or on any
\* other suspension point.
C26_NoLockWhileSuspended ==
    \A f \in Files : \A c \in 1..Len(tasks[f]) : Suspended(f, c) => ~HoldsCollectorLock(f, c)

\* C26, what the code keeps: at most one chunk task holds the collector lock,
\* and a task that holds it waits for nothing but its send; while the channel
\* has room no lock holder is suspended.
C26_LockHeldByOneSender ==
    \A f \in Files :
        /\ Cardinality({c \in 1..Len(tasks[f]) : HoldsCollectorLock(f, c)}) <= 1
        /\ \A c \in 1..Len(tasks[f]) :
              (HoldsCollectorLock(f, c) /\ Len(chan[f]) < ChannelCapacity) => ~Suspended(f, c)

-----------------------------------------------------------------------------
(* The configuration reads of one decode_log_file call: decoder.rs,         *)
(* configger.rs                                                             *)

\* get_config(): a clone of the configuration, taken under the read lock, from
\* which the caller uses one field of the decoder section.
get_config(field) == [field |-> field, value |-> GLACIERS_CONFIG.decoder[field]]

\* The set_config calls another thread makes while files are decoded.
ConcurrentSets ==
    {[path |-> <<"decoder", "algorithm">>, value |-> Str("hash_address")],
     [path |-> <<"decoder", "output_hex_string_encoding">>, value |-> Bool(TRUE)],
     [path |-> <<"decoder", "output_file_format">>, value |-> Str("csv")],
     [path |-> <<"decoder", "max_chunk_threads_per_file">>, value |-> Num(1)],
     [path |-> <<"decoder", "decoded_chunk_size">>, value |-> Num(1)],
     [path |-> <<"decoder", "decoded_chunk_size">>, value |-> Num(7)]}

InitReads ==
    /\ IdleCatalog
    /\ IdleOrch
    /\ IdleMatch
    /\ IdleTrace
    /\ IdleConfig
    /\ IdleHex
    /\ IdleSchema
    /\ IdleFile
    /\ IdleReads
    /\ IdleKernel

\* set_config on another thread: it takes the write lock for the one
\* assignment, between any two reads of a running call.
ConcurrentSetConfig(config_path, value) ==
    /\ dSets < MaxSets
    /\ dpc # "returned"
    /\ GLACIERS_CONFIG' = set_config(GLACIERS_CONFIG, config_path, value).config
    /\ dSeen' = IF dpc = "idle" THEN dSeen ELSE dSeen \cup {GLACIERS_CONFIG'}
    /\ dSets' = dSets + 1
    /\ UNCHANGED <<dHeight, dIdx, dPending, dReads, dpc, lastCall, setCalls, snapshot, tomlDoc,
                   tomlPairs, tomlBefore, tomlRet, tomlpc, cli, cliRet, cpc, schemaVars,
                   fileVars, kernelVars, catVars, orchVars, matchVars, traceVars, hexVars>>

\* decode_log_file is called on a file whose matched table has height rows.
DecodeLogFileStart(height) ==
    /\ dpc = "idle"
    /\ dHeight' = height
    /\ dSeen' = {GLACIERS_CONFIG}
    /\ dpc' = "algorithm"
    /\ UNCHANGED <<dIdx, dPending, dReads, dSets, cfgVars, schemaVars, fileVars, kernelVars,
                   catVars, orchVars, matchVars, traceVars, hexVars>>

\* decode_log_df_with_abi_df chooses the matcher by the algorithm it reads.
ReadAlgorithm ==
    /\ dpc = "algorithm"
    /\ dReads' = Append(dReads, get_config("algorithm"))
    /\ dpc' = "permits"
    /\ UNCHANGED <<dHeight, dIdx, dPending, dSeen, dSets, cfgVars, schemaVars, fileVars,
                   kernelVars, catVars, orchVars, matchVars, traceVars, hexVars>>

\* decode_logs creates the chunk semaphore with the permit count it reads.
ReadPermits ==
    /\ dpc = "permits"
    /\ dReads' = Append(dReads, get_config("max_chunk_threads_per_file"))
    /\ dpc' = "slicing"
    /\ UNCHANGED <<dHeight, dIdx, dPending, dSeen, dSets, cfgVars, schemaVars, fileVars,
                   kernelVars, catVars, orchVars, matchVars, traceVars, hexVars>>

\* One iteration of the slicing loop: the chunk size is read anew and a chunk
\* task is spawned for the slice.
ReadChunkSize ==
    /\ dpc = "slicing"
    /\ dIdx < dHeight
    /\ dReads' = Append(dReads, get_config("decoded_chunk_size"))
    /\ dIdx' = Min(dIdx + get_config("decoded_chunk_size").value, dHeight)
    /\ dPending' = dPending + 1
    /\ UNCHANGED <<dHeight, dSeen, dSets, dpc, cfgVars, schemaVars, fileVars, kernelVars,
                   catVars, orchVars, matchVars, traceVars, hexVars>>

\* polars_decode_logs in a chunk task reads the output encoding after it has
\* decoded the rows of its slice.
ReadOutputEncoding ==
    /\ dpc = "slicing"
    /\ dPending > 0
    /\ dReads' = Append(dReads, get_config("output_hex_string_encoding"))
    /\ dPending' = dPending - 1
    /\ UNCHANGED <<dHeight, dIdx, dSeen, dSets, dpc, cfgVars, schemaVars, fileVars,
                   kernelVars, catVars, orchVars, matchVars, traceVars, hexVars>>

\* decode_logs has returned the union of the chunks: decode_log_file reads the
\* output file format for the path it saves to, and returns.
ReadOutputFileFormat ==
    /\ dpc = "slicing"
    /\ dIdx >= dHeight
    /\ dPending = 0
    /\ dReads' = Append(dReads, get_config("output_file_format"))
    /\ dpc' = "returned"
    /\ UNCHANGED <<dHeight, dIdx, dPending, dSeen, dSets, cfgVars, schemaVars, fileVars,
                   kernelVars, catVars, orchVars, matchVars, traceVars, hexVars>>

NextReads ==
    \/ \E s \in ConcurrentSets : ConcurrentSetConfig(s.path, s.value)
    \/ \E height \in 1..MaxRows : DecodeLogFileStart(height)
    \/ ReadAlgorithm
    \/ ReadPermits
    \/ ReadChunkSize
    \/ ReadOutputEncoding
    \/ ReadOutputFileFormat

SpecReads == InitReads /\ [][NextReads]_vars

\* Every value the call has used so far is the value of its field in the
\* configuration S.
ReadsComeFrom(S) ==
    \A i \in 1..Len(dReads) : dReads[i].value = S.decoder[dReads[i].field]

\* C27: all the configuration values one decode_log_file call uses (the
\* algorithm, the chunk permit count, the chunk size of every slice, the
\* output encoding of every chunk, the output file format) come from one
\* configuration snapshot, also when set_config runs concurrently.
C27_OneSnapshotPerCall ==
    dpc # "idle" => \E S \in dSeen : ReadsComeFrom(S)

\* C27 for a call during which no set_config ran: every value comes from the
\* configuration as it was when the call started.
C27_OneSnapshotWithoutConcurrentSet ==
    (dpc # "idle" /\ Cardinality(dSeen) = 1) => \E S \in dSeen : ReadsComeFrom(S)

-----------------------------------------------------------------------------
(* The parameter records of the event kernels: crates/glaciers/src/         *)
(* log_decoder.rs and src/decoder.rs                                        *)

\* The inputs of the parsed signatures of the model: up to MaxParams inputs,
\* named by their position in the signature, each indexed or not.
EventInputs ==
    UNION {{[i \in 1..n |-> [name |-> <<"p", i>>, ty |-> ty[i], indexed |-> ix[i]]] :
              ty \in [1..n -> {"address", "uint256"}], ix \in [1..n -> BOOLEAN]} :
           n \in 0..MaxParams}

\* The value decode_log_parts decodes for an input: it is decoded from the
\* topic or the body bytes of that input, as its type.
DecodedValue(input) == <<"value of", input.name, input.ty>>

\* decode_log_parts, and decode putting the values together: the values of the
\* indexed inputs in signature order, then the values of the body in
\* signature order.
event_values(inputs) ==
    LET indexed == SelectSeq(inputs, LAMBDA e : e.indexed)
        body == SelectSeq(inputs, LAMBDA e : ~e.indexed)
    IN  [i \in 1..Len(indexed) |-> DecodedValue(indexed[i])]
        \o [i \in 1..Len(body) |-> DecodedValue(body[i])]

\* The loop that builds the records: input i of event_inputs with value i.
StructuredParams(event_inputs, values) ==
    [i \in 1..Len(event_inputs) |->
        [name |-> event_inputs[i].name, index |-> i - 1,
         value_type |-> event_inputs[i].ty, value |-> values[i]]]

\* map_event_sig_and_values of crates/glaciers/src/log_decoder.rs: the inputs
\* are partitioned into indexed and others before the loop.
structured_event(inputs, values) ==
    StructuredParams(map_event_sig_and_values(inputs), values)

\* map_event_sig_and_values of src/decoder.rs: the loop runs over the inputs in
\* signature order.
structured_event_src(inputs, values) == StructuredParams(inputs, values)

InitKernel ==
    /\ IdleCatalog
    /\ IdleOrch
    /\ IdleMatch
    /\ IdleTrace
    /\ IdleConfig
    /\ IdleHex
    /\ IdleSchema
    /\ IdleFile
    /\ IdleReads
    /\ kInputs \in EventInputs
    /\ kEvent = <<>>
    /\ kpc = "start"

\* decode of crates/glaciers/src/log_decoder.rs on a row of the event.
MapEventSigAndValues ==
    /\ kpc = "start"
    /\ kEvent' = structured_event(kInputs, event_values(kInputs))
    /\ kpc' = "glaciers"
    /\ UNCHANGED <<kInputs, schemaVars, fileVars, readVars, catVars, orchVars, matchVars,
                   traceVars, cfgVars, hexVars>>

\* decode of src/decoder.rs on a row of the event.
MapEventSigAndValuesSrc ==
    /\ kpc = "start"
    /\ kEvent' = structured_event_src(kInputs, event_values(kInputs))
    /\ kpc' = "src"
    /\ UNCHANGED <<kInputs, schemaVars, fileVars, readVars, catVars, orchVars, matchVars,
                   traceVars, cfgVars, hexVars>>

NextKernel ==
    \/ MapEventSigAndValues
    \/ MapEventSigAndValuesSrc

SpecKernel == InitKernel /\ [][NextKernel]_vars

\* The records are those of the indexed inputs, then of the other inputs, each
\* group in signature order, numbered from 0, each with the name and type of
\* the input its value was decoded for.
RecordsAligned ==
    LET ordered == SelectSeq(kInputs, LAMBDA e : e.indexed)
                   \o SelectSeq(kInputs, LAMBDA e : ~e.indexed)
    IN  /\ Len(kEvent) = Len(kInputs)
        /\ \A i \in 1..Len(kEvent) :
              /\ kEvent[i].index = i - 1
              /\ kEvent[i].name = ordered[i].name
              /\ kEvent[i].value_type = ordered[i].ty
              /\ kEvent[i].value = DecodedValue(ordered[i])
              /\ kEvent[i].value = <<"value of", kEvent[i].name, kEvent[i].value_type>>

\* C28: in the event kernel the parameter records of a row are ordered indexed
\* inputs first, then non-indexed inputs, each group in signature order;
\* record i has index i, and its name and value_type are those of the input
\* whose decoded value is value i, for any mix of indexed and non-indexed
\* inputs.
C28_RecordsAlignedWithValues ==
    kpc \in {"glaciers", "src"} => RecordsAligned

\* C28 for the kernel of crates/glaciers/src/log_decoder.rs alone.
C28_GlaciersKernelAligned ==
    kpc = "glaciers" => RecordsAligned

\* C28 for the kernel of src/decoder.rs on the signatures in which no indexed
\* input follows a non-indexed one.
C28_SrcKernelAlignedWhenIndexedFirst ==
    (kpc = "src"
        /\ \A i, j \in 1..Len(kInputs) : (i < j /\ kInputs[j].indexed) => kInputs[i].indexed)
    => RecordsAligned

=============================================================================
